---- MODULE Spec2Model ----
(***************************************************************************)
(* Model of the enspider scan pipeline: runScan (server/scanner-service.ts)*)
(* with its whole-scan watchdog, the per-page four-viewport scan of        *)
(* MultiViewportScanner.scanPage (checker/multi-viewport-scanner.ts), the  *)
(* retrying ScreenshotCapture.capture, the ErrorDetector, and the          *)
(* fire-and-forget screenshot quality analysis.                            *)
(*                                                                         *)
(* Control is a single asynchronous flow (pc) suspended at awaits; the     *)
(* watchdog timer callback and the analysis continuations are the only     *)
(* other tasks and run between those awaits.                               *)
(***************************************************************************)
EXTENDS Integers, Sequences, FiniteSets, TLC

\* ---------------------------------------------------------------- bounds
\* largest number of pages the sampler hands to the page loop
NumPages == 2
\* largest number of environment-chosen non-default outcomes in one run
\* (failed navigation, failed screenshot, page finding, timer expiry, ...)
MaxEvents == 2
\* number of links of the homepage that are visited for a fingerprint
NumLinks == 2

\* ------------------------------------------------------ program constants
maxRetries == 3

\* variant: the spider passes come first
ModesSpiderFirst == <<"pc_spider", "mobile_spider", "pc_normal", "mobile_normal">>

\* getViewportModes: the viewport modes in the order scanPage iterates them
Modes == <<"pc_normal", "mobile_normal", "pc_spider", "mobile_spider">>

ModeNames == {Modes[i] : i \in 1..Len(Modes)}

IsSpider(m) == m \in {"pc_spider", "mobile_spider"}

Issue(t, s, v) == [type |-> t, severity |-> s, viewport |-> v]

NewResult ==
  [status |-> "success", screenshots |-> {}, issues |-> <<>>,
   loadTime |-> 0, httpStatus |-> 200]

VARIABLES
  pc,              \* where runScan / scanPage / capture is suspended
  hostAlive,       \* the server process is still running
  runs,            \* number of times the caller has invoked runScan
  callerErrors,    \* number of rejections delivered to runScan's caller
  timerArmed,      \* the watchdog setTimeout is pending
  isScanComplete,  \* runScan's flag of the same name
  watchdogFired,   \* history: the watchdog body has marked the run failed
  testStatus,      \* tests.status of this run's record ("none" before createTest)
  totalPages,      \* tests.total_pages ("unset" until the run completes)
  browser,         \* the scanner's browser: "none" | "open" | "closed"
  visitor,         \* the PageVisitor's browser/context: "none" | "open" | "closed"
  notifications,   \* ProgressManager.notifications (types only)
  extraction,      \* per sampled link, the state of its entry of visitPromises
  clustersBuilt,   \* cluster.cluster(fingerprints) has returned
  numSampled,      \* sampledPages.length
  pageIdx,         \* index of the page the loop is at
  pageOutcome,     \* history: per page "pending" | "recorded" | "threw"
  scanIndex,       \* runScan's scanIndex
  pageRecords,     \* rows of the pages table, in insertion order
  analysis,        \* per page id, the state of its quality-analysis task
  modeIdx,         \* scanPage: index into Modes of the current pass
  result,          \* scanPage: the PageResult under construction / returned
  respStatus,      \* scanPage: response?.status() of the current pass
  openContexts,    \* browser contexts opened and not closed: <<page, mode>> for
                   \* those of the scanPage call in progress, and the one entry
                   \* EarlierContexts for all those of earlier calls
  firstViewportPage, \* scanPage: the retained pc_normal page is open
  passLog,         \* history: modes whose pass body was entered, this page
  emitted,         \* history: issues produced by the sub-checks, this page
  attempts,        \* capture: page.screenshot calls made in this call
  delays,          \* capture: retry delays slept in this call
  failPlan,        \* environment: how many more page.screenshot calls fail
  capLog,          \* history: the capture call of the current pass, until
                   \* the pass goes on past it
  expiredAt,       \* history: the part of runScan that was suspended when the
                   \* watchdog callback ran, or "none"
  stepLog,         \* history: <<mode, step>> pairs of the pass in progress or,
                   \* between two passes, of the pass that has just ended
  passesRun,       \* history: per page, the viewport passes that have ended
  events,          \* number of abnormal outcomes chosen so far
  fingerprints,    \* cluster(): its argument, a sequence of DOMFingerprint
  threshold,       \* PageClusterEngine.threshold, in units of 1/One
  clusters,        \* cluster(): the PageCluster list under construction
  fpNext,          \* cluster(): index of the fingerprint the loop takes next
                   \* (0 while no call of cluster() is being followed)
  previous,        \* history: what the earlier calls of cluster() on the same
                   \* input returned, oldest first
  samplerPc,       \* where the SmartSampler is: "idle" while it is not followed
  maxPagesPerCategory, \* sampleFromClusters: its argument of the same name
  typedClusters,   \* sampleFromClusters: the clusters with typed members
  sampled,         \* sampleFromClusters: the Map `sampled`, one entry per
                   \* cluster in insertion order (cluster ids are distinct)
  selected,        \* selectDiversePages: its array `selected`
  allPages,        \* getSampledPages: the array it returns
  similarity,      \* what a call of calculate(fingerprints[1], fingerprints[2])
                   \* returned, in units of 1/One; -1 while there is none
  screenshot,      \* the screenshot handed to the ScreenshotAnalyzer
  quality,         \* the ScreenshotQualityIssue it returned
  listeners,       \* SSE consumers whose onProgress is registered on the
                   \* ProgressManager
  sockets,         \* per SSE consumer: "none" | "open" | "closed"
  storedCategories,\* the category runScan passes to scanPage for each sampled
                   \* page, in the order of sampledPages
  multiDomain,     \* the page loop of a multi-domain run followed on its own
  db,              \* the tests and pages tables of the database
  store,           \* ProgressManager.notifications and what goes with it
  visits           \* runScan step 2: visitPromises, their results, fingerprints

vars ==
  <<pc, hostAlive, runs, callerErrors, timerArmed, isScanComplete,
    watchdogFired, testStatus, totalPages, browser, visitor, notifications,
    extraction, clustersBuilt, numSampled, pageIdx, pageOutcome, scanIndex,
    pageRecords, analysis, modeIdx, result, respStatus, openContexts, firstViewportPage, passLog,
    emitted, attempts, delays, failPlan, capLog, expiredAt, stepLog,
    passesRun, events, fingerprints, threshold, clusters, fpNext, previous,
    samplerPc, maxPagesPerCategory, typedClusters, sampled, selected,
    allPages, similarity, screenshot, quality, listeners, sockets,
    storedCategories, multiDomain, db, store, visits>>

\* the variables of runScan and of everything it calls
scanVars ==
  <<pc, hostAlive, runs, callerErrors, timerArmed, isScanComplete,
    watchdogFired, testStatus, totalPages, browser, visitor, notifications,
    extraction, clustersBuilt, numSampled, pageIdx, pageOutcome, scanIndex,
    pageRecords, analysis, modeIdx, result, respStatus, openContexts, firstViewportPage, passLog,
    emitted, attempts, delays, failPlan, capLog, expiredAt, stepLog,
    passesRun, events>>

\* the variables of one call of PageClusterEngine.cluster followed step by step
clusterVars == <<fingerprints, threshold, clusters, fpNext, previous>>

\* the variables of a call of SimilarityCalculator.calculate, of a call of
\* the ScreenshotAnalyzer, and of the SSE consumers of the progress endpoint
calcVars == <<similarity>>

analyzerVars == <<screenshot, quality>>

consumerVars == <<listeners, sockets>>

\* the variables of the category lookup of the page loop, of the domain
\* loop, of the database and of the notification store
extraVars == <<storedCategories, multiDomain, db, store, visits>>

otherVars == <<calcVars, analyzerVars, consumerVars, extraVars>>

\* the variables of the SmartSampler followed on its own
samplerVars ==
  <<samplerPc, maxPagesPerCategory, typedClusters, sampled, selected, allPages>>

runVars ==
  <<runs, callerErrors, timerArmed, isScanComplete, watchdogFired, expiredAt,
    testStatus, totalPages, browser, visitor, notifications>>

loopVars == <<numSampled, pageIdx, pageOutcome, scanIndex, pageRecords, analysis>>

sampleVars == <<extraction, clustersBuilt>>

passVars ==
  <<modeIdx, result, respStatus, openContexts, firstViewportPage, passLog,
    emitted, stepLog>>

capVars == <<attempts, delays, failPlan, capLog>>

CapLog(st, a, d, f, c, m) ==
  [state |-> st, attempts |-> a, delays |-> d, fails |-> f, cause |-> c,
   mode |-> m]

NoCapture == CapLog("none", 0, 0, 0, "none", "none")

ScanInit ==
  /\ pc = "idle"
  /\ hostAlive = TRUE
  /\ runs = 0
  /\ callerErrors = 0
  /\ timerArmed = FALSE
  /\ isScanComplete = FALSE
  /\ watchdogFired = FALSE
  /\ testStatus = "none"
  /\ totalPages = "unset"
  /\ browser = "none"
  /\ visitor = "none"
  /\ notifications = <<>>
  /\ extraction = [l \in 1..NumLinks |-> "none"]
  /\ clustersBuilt = FALSE
  /\ numSampled = 0
  /\ pageIdx = 0
  /\ pageOutcome = [p \in 1..NumPages |-> "pending"]
  /\ scanIndex = 0
  /\ pageRecords = <<>>
  /\ analysis = [p \in 1..NumPages |-> "none"]
  /\ modeIdx = 0
  /\ result = NewResult
  /\ respStatus = 200
  /\ openContexts = {}
  /\ firstViewportPage = FALSE
  /\ passLog = <<>>
  /\ emitted = <<>>
  /\ attempts = 0
  /\ delays = 0
  /\ failPlan = 0
  /\ capLog = NoCapture
  /\ expiredAt = "none"
  /\ stepLog = {}
  /\ passesRun = [p \in 1..NumPages |-> 0]
  /\ events = 0

\* no call of cluster() is being followed
ClusterIdle ==
  /\ fingerprints = <<>>
  /\ threshold = 0
  /\ clusters = <<>>
  /\ fpNext = 0
  /\ previous = <<>>

\* no call of the sampler is being followed
SamplerIdle ==
  /\ samplerPc = "idle"
  /\ maxPagesPerCategory = 0
  /\ typedClusters = <<>>
  /\ sampled = <<>>
  /\ selected = <<>>
  /\ allPages = <<>>

\* the clients that open the progress endpoint of the scan
Consumers == {"dashboard"}

\* no call of calculate is being followed
CalcIdle == similarity = -1

\* no call of the ScreenshotAnalyzer is being followed
AnalyzerIdle ==
  /\ screenshot = <<>>
  /\ quality = <<>>

\* nobody has opened GET /api/scan/progress/:id
ConsumersAbsent ==
  /\ listeners = {}
  /\ sockets = [c \in Consumers |-> "none"]

\* no category has been looked up
CategoriesIdle == storedCategories = <<>>

\* no domain loop is being followed
MultiDomainIdle == multiDomain = <<>>

\* the database is not being followed
DbIdle == db = <<>>

\* the notification store is not being followed
StoreIdle == store = <<>>

VisitsIdle == visits = <<>>

ExtraIdle == CategoriesIdle /\ MultiDomainIdle /\ DbIdle /\ StoreIdle /\ VisitsIdle

OtherIdle == CalcIdle /\ AnalyzerIdle /\ ConsumersAbsent /\ ExtraIdle

Init == ScanInit /\ ClusterIdle /\ SamplerIdle /\ OtherIdle

\* an abnormal outcome may still be chosen
CanFault == events < MaxEvents

Fault == events' = events + 1

NoFault == UNCHANGED events

OneIfNum(c) == IF c THEN 1 ELSE 0

\* ------------------------------------------------------------- scanPage
\* variant: the catch only logs
CatchPassSilent(res, m) == res

\* the catch of a viewport pass: one timeout issue for that viewport
CatchPass(res, m) ==
  [res EXCEPT !.issues = Append(@, Issue("timeout", "error", m))]

\* variant: the catch leaves the loop
NextModeAfterFailureBreak(i) == Len(Modes) + 1

\* after the catch the for-loop goes on with the next viewport mode
NextModeAfterFailure(i) == i + 1

\* the for-loop over the viewport modes is exhausted
LoopDone(i) == i > Len(Modes)

\* variant: any issue at all makes the page an error
DeriveStatusAnyIssue(issues) ==
  IF Len(issues) > 0 THEN "error" ELSE "success"

\* status is derived from the collected issues just before returning
DeriveStatus(issues) ==
  IF \E k \in 1..Len(issues) : issues[k].severity = "error"
  THEN "error" ELSE "success"

FinishResult(res) ==
  [res EXCEPT !.status =
     IF DeriveStatus(res.issues) = "error" THEN "error" ELSE @]

\* the step after a pass ended with the loop variable becoming i
GotoMode(i) ==
  /\ modeIdx' = i
  /\ respStatus' = 200
  /\ passesRun' = [passesRun EXCEPT ![pageIdx] = @ + 1]
  /\ pc' = IF LoopDone(i) THEN "afterLoop" ELSE "newContext"

\* the pass body goes on to its next await
StayInPass == UNCHANGED <<modeIdx, passesRun, respStatus>>

\* an exception escaped the pass body
PassThrows ==
  /\ result' = CatchPass(result, Modes[modeIdx])
  /\ emitted' = Append(emitted, Issue("timeout", "error", Modes[modeIdx]))
  /\ GotoMode(NextModeAfterFailure(modeIdx))

\* browser.newContext, context.route, context.newPage; for a list page the
\* pc_normal pass first visits the site's homepage inside its own try/catch
NewContext ==
  /\ pc = "newContext" /\ hostAlive
  /\ passLog' = Append(passLog, Modes[modeIdx])
  /\ \/ /\ browser = "open"
        /\ openContexts' = openContexts \cup {<<pageIdx, Modes[modeIdx]>>}
        /\ pc' = "goto"
        /\ NoFault
        /\ stepLog' = {}
        /\ StayInPass
        /\ UNCHANGED <<result, emitted>>
     \/ /\ browser = "open" /\ CanFault /\ Fault
        /\ Modes[modeIdx] = "pc_normal"
        /\ openContexts' = openContexts \cup {<<pageIdx, Modes[modeIdx]>>}
        /\ stepLog' = {<<Modes[modeIdx], "sessionVisitFailed">>}
        /\ pc' = "goto"
        /\ StayInPass
        /\ UNCHANGED <<result, emitted>>
     \/ /\ browser = "open" /\ CanFault /\ Fault
        /\ PassThrows
        /\ stepLog' = {}
        /\ UNCHANGED openContexts
     \/ /\ browser # "open" /\ NoFault
        /\ PassThrows
        /\ stepLog' = {}
        /\ UNCHANGED openContexts
  /\ UNCHANGED <<otherVars, samplerVars, clusterVars, sampleVars, hostAlive, runVars, loopVars, capVars,
                 firstViewportPage>>

\* the values response?.status() can take
Statuses == {200, 500, 0}

\* variant: every pass stores its load time and status
RecordsLoadEveryPass(m) == TRUE

\* the pass whose load time and HTTP status are stored in the result
RecordsLoad(m) == m = "pc_normal"

\* page.goto and the recording of load time and HTTP status; the page may
\* write an error to its console while it loads, when no console listener
\* has been registered on it yet
Goto ==
  /\ pc = "goto" /\ hostAlive
  /\ \/ /\ browser = "open"
        /\ \E st \in Statuses, con \in BOOLEAN :
             /\ OneIfNum(st # 200) + OneIfNum(con) <= MaxEvents - events
             /\ events' = events + OneIfNum(st # 200) + OneIfNum(con)
             /\ stepLog' = IF con
                           THEN stepLog \cup {<<Modes[modeIdx], "consoleErrorOnLoad">>}
                           ELSE stepLog
             /\ respStatus' = st
             /\ result' = IF RecordsLoad(Modes[modeIdx])
                          THEN [result EXCEPT !.loadTime = 1, !.httpStatus = st]
                          ELSE result
        /\ pc' = "settle"
        /\ UNCHANGED <<modeIdx, passesRun>>
        /\ UNCHANGED emitted
     \/ /\ browser = "open" /\ CanFault /\ Fault
        /\ PassThrows
        /\ stepLog' = stepLog \cup {<<Modes[modeIdx], "gotoFailed">>}
     \/ /\ browser # "open" /\ NoFault
        /\ PassThrows
        /\ stepLog' = stepLog \cup {<<Modes[modeIdx], "gotoFailed">>}
  /\ UNCHANGED <<otherVars, samplerVars, clusterVars, sampleVars, hostAlive, runVars, loopVars, capVars, openContexts,
                 firstViewportPage, passLog>>

\* the wait for the content (fixed waits; on a list page the bounded wait for
\* the load state and the listing, whose timeouts are logged and swallowed),
\* then ViewportChecker.checkViewport
Settle ==
  /\ pc = "settle" /\ hostAlive
  /\ \/ /\ browser = "open" /\ NoFault
        /\ pc' = "capSetup"
        /\ StayInPass
        /\ UNCHANGED <<result, emitted, stepLog>>
     \/ /\ browser = "open" /\ CanFault /\ Fault
        /\ stepLog' = stepLog \cup {<<Modes[modeIdx], "settleTimeout">>}
        /\ pc' = "capSetup"
        /\ StayInPass
        /\ UNCHANGED <<result, emitted>>
     \/ /\ browser = "open" /\ CanFault /\ Fault
        /\ result' = [result EXCEPT !.issues =
             Append(@, Issue("horizontal_scroll", "error", Modes[modeIdx]))]
        /\ emitted' = Append(emitted,
             Issue("horizontal_scroll", "error", Modes[modeIdx]))
        /\ pc' = "capSetup"
        /\ StayInPass
        /\ UNCHANGED stepLog
     \/ /\ browser # "open" /\ NoFault
        /\ PassThrows
        /\ UNCHANGED stepLog
  /\ UNCHANGED <<otherVars, samplerVars, clusterVars, sampleVars, hostAlive, runVars, loopVars, capVars,
                 openContexts, firstViewportPage, passLog>>

\* ------------------------------------------ ScreenshotCapture.capture
\* a retry sleeps the fixed delay first
ShouldDelay(attempt) == attempt > 0

\* variant: off by one, a fourth attempt is made
IsLastAttemptLate(attempt) == attempt = maxRetries

\* the failure of this attempt is rethrown instead of retried
IsLastAttempt(attempt) == attempt = maxRetries - 1

\* variant: the failed screenshot is reported as a warning
CaptureFailedAsWarning(res, m) ==
  [res EXCEPT !.issues = Append(@, Issue("screenshot_failed", "warning", m))]

\* scanPage's catch around capture: one screenshot_failed issue
CaptureFailed(res, m) ==
  [res EXCEPT !.issues = Append(@, Issue("screenshot_failed", "error", m))]

\* capture returned a ScreenshotInfo: its path is stored for the viewport
CaptureSucceeded(res, m) ==
  [res EXCEPT !.screenshots = @ \cup {m}]

\* variant: no catch around capture, the rejection escapes the pass body
CaptureRejectsEscapes == PassThrows

\* capture rejected: scanPage records the issue and goes on with the pass
CaptureRejects ==
  /\ result' = CaptureFailed(result, Modes[modeIdx])
  /\ emitted' = Append(emitted,
       Issue("screenshot_failed", "error", Modes[modeIdx]))
  /\ pc' = "detect"
  /\ StayInPass

\* reflow, the 800 ms wait, then capture up to its retry loop:
\* ensureDir and page.setViewportSize
CapSetup ==
  /\ pc = "capSetup" /\ hostAlive
  /\ \/ /\ browser = "open"
        /\ \E n \in 0..maxRetries :
             /\ IF n = 0 THEN NoFault ELSE CanFault /\ Fault
             /\ failPlan' = n
        /\ attempts' = 0 /\ delays' = 0
        /\ capLog' = CapLog("running", 0, 0, 0, "none", Modes[modeIdx])
        /\ pc' = "capAttempt"
        /\ StayInPass
        /\ UNCHANGED <<result, emitted, stepLog>>
     \/ /\ browser = "open" /\ CanFault /\ Fault
        /\ CaptureRejects
        /\ capLog' = CapLog("failed", 0, 0, 0, "setup", Modes[modeIdx])
        /\ stepLog' = stepLog \cup {<<Modes[modeIdx], "captureFailed">>}
        /\ UNCHANGED <<attempts, delays, failPlan>>
     \/ /\ browser # "open" /\ NoFault
        /\ PassThrows
        /\ UNCHANGED <<capVars, stepLog>>
  /\ UNCHANGED <<otherVars, samplerVars, clusterVars, sampleVars, hostAlive, runVars, loopVars, openContexts,
                 firstViewportPage, passLog>>

\* one iteration of the retry loop: optional delay, then page.screenshot
CapAttempt ==
  /\ pc = "capAttempt" /\ hostAlive
  /\ LET d == IF ShouldDelay(attempts) THEN delays + 1 ELSE delays
         fails == failPlan > 0 \/ browser # "open"
         log(st) == CapLog(st, attempts + 1, d,
                           capLog.fails + (IF fails THEN 1 ELSE 0),
                           IF st = "failed" THEN "screenshot" ELSE "none",
                           Modes[modeIdx])
     IN /\ attempts' = attempts + 1
        /\ delays' = d
        /\ failPlan' = IF failPlan > 0 THEN failPlan - 1 ELSE 0
        /\ IF fails
           THEN IF IsLastAttempt(attempts)
                THEN /\ CaptureRejects
                     /\ capLog' = log("failed")
                     /\ stepLog' = stepLog \cup {<<Modes[modeIdx], "captureFailed">>}
                ELSE /\ capLog' = log("running")
                     /\ StayInPass
                     /\ UNCHANGED <<pc, result, emitted, stepLog>>
           ELSE /\ result' = CaptureSucceeded(result, Modes[modeIdx])
                /\ capLog' = log("ok")
                /\ pc' = "detect"
                /\ StayInPass
                /\ UNCHANGED <<emitted, stepLog>>
  /\ UNCHANGED <<otherVars, samplerVars, clusterVars, sampleVars, hostAlive, events, runVars, loopVars, respStatus,
                 openContexts, firstViewportPage, passLog>>

\* ------------------------------------------ ErrorDetector.detectErrors
Findings == {"broken_image", "error_text", "js_error"}

OneIf(c, x) == IF c THEN <<x>> ELSE <<>>

\* the issues detectErrors returns, in the order it pushes them
DetectIssues(status, found, rid) ==
  LET http   == OneIf(status # 0 /\ status # 200 /\ status # 304,
                      [type |-> "http_error", severity |-> "error"])
      broken == OneIf("broken_image" \in found,
                      [type |-> "broken_image", severity |-> "warning"])
      text   == OneIf("error_text" \in found,
                      [type |-> "error_text", severity |-> "error"])
      sofar  == http \o broken \o text
      reqid  == OneIf(rid /\ Len(sofar) > 0,
                      [type |-> "request_id", severity |-> "info"])
      js     == OneIf("js_error" \in found,
                      [type |-> "js_error", severity |-> "warning"])
  IN sofar \o reqid \o js

\* scanPage tags each returned issue with the viewport of the pass
Tagged(iss, m) ==
  [k \in 1..Len(iss) |-> Issue(iss[k].type, iss[k].severity, m)]

\* variant: the detector runs in every pass
RunsDetectorAlways(m) == TRUE

\* the error detector runs in the non-spider passes
RunsDetector(m) == ~IsSpider(m)

Detect ==
  /\ pc = "detect" /\ hostAlive
  /\ \E found \in SUBSET Findings, rid \in BOOLEAN :
       /\ Cardinality(found) + OneIfNum(rid) <= MaxEvents - events
       /\ found # {} => browser = "open" /\ RunsDetector(Modes[modeIdx])
       /\ rid => respStatus \notin {0, 200} \/ found \cap {"broken_image", "error_text"} # {}
       /\ rid => browser = "open" /\ RunsDetector(Modes[modeIdx])
       /\ events' = events + Cardinality(found) + OneIfNum(rid)
       /\ LET iss == IF RunsDetector(Modes[modeIdx])
                     THEN Tagged(DetectIssues(respStatus, found, rid), Modes[modeIdx])
                     ELSE <<>>
          IN /\ result' = [result EXCEPT !.issues = @ \o iss]
             /\ emitted' = emitted \o iss
  /\ pc' = "closePass"
  /\ stepLog' = stepLog \cup {<<Modes[modeIdx], "detect">>}
  /\ attempts' = 0 /\ delays' = 0 /\ failPlan' = 0
  /\ capLog' = NoCapture
  /\ StayInPass
  /\ UNCHANGED <<otherVars, samplerVars, clusterVars, sampleVars, hostAlive, runVars, loopVars, respStatus,
                 openContexts, firstViewportPage, passLog>>

\* the end of the pass body: keep or close the page, close the context
ClosePass ==
  /\ pc = "closePass" /\ hostAlive
  /\ firstViewportPage' = (firstViewportPage \/ Modes[modeIdx] = "pc_normal")
  /\ stepLog' = stepLog \cup {<<Modes[modeIdx], "close">>}
  /\ \/ /\ NoFault
        /\ openContexts' = openContexts \ {<<pageIdx, Modes[modeIdx]>>}
        /\ GotoMode(modeIdx + 1)
        /\ UNCHANGED <<result, emitted>>
     \/ /\ browser = "open" /\ CanFault /\ Fault
        /\ PassThrows
        /\ UNCHANGED openContexts
  /\ UNCHANGED <<otherVars, samplerVars, clusterVars, sampleVars, hostAlive, runVars, loopVars, capVars, passLog>>

\* after the loop: SEO analysis only when the pc_normal page was retained
AfterLoop ==
  /\ pc = "afterLoop" /\ hostAlive
  /\ IF firstViewportPage
     THEN pc' = "seo" /\ UNCHANGED result
     ELSE pc' = "returned" /\ result' = FinishResult(result)
  /\ UNCHANGED <<otherVars, samplerVars, clusterVars, sampleVars, hostAlive, events, runVars, loopVars, capVars, modeIdx,
                 respStatus, openContexts, firstViewportPage, passLog, emitted,
                 stepLog, passesRun>>

\* seoChecker.checkSEO inside its own try/catch
Seo ==
  /\ pc = "seo" /\ hostAlive
  /\ pc' = "closeFirst"
  /\ UNCHANGED <<otherVars, samplerVars, clusterVars, sampleVars, hostAlive, events, runVars, loopVars, capVars, passVars,
                 passesRun>>

\* firstViewportPage.close(), outside any try, then the return
CloseFirst ==
  /\ pc = "closeFirst" /\ hostAlive
  /\ \/ /\ NoFault
        /\ firstViewportPage' = FALSE
        /\ result' = FinishResult(result)
        /\ pc' = "returned"
     \/ /\ browser = "open" /\ CanFault /\ Fault
        /\ pc' = "rejected"
        /\ UNCHANGED <<firstViewportPage, result>>
  /\ UNCHANGED <<otherVars, samplerVars, clusterVars, sampleVars, hostAlive, runVars, loopVars, capVars, modeIdx, respStatus,
                 openContexts, passLog, emitted, stepLog, passesRun>>

\* -------------------------------------------------------------- runScan
\* points where the flow is between a settled promise and its continuation:
\* no timer callback can run there
SyncPoints == {"idle", "afterLoop", "returned", "rejected"}

\* variant: writing to a response whose socket is closed throws
ResWriteThrowsWhenClosed(socket) ==
  IF socket = "closed" THEN "threw" ELSE "returned"

\* res.write of an SSE response: the chunk is sent on an open socket and
\* dropped on a closed one; the call returns in both cases
ResWrite(socket) == "returned"

\* this.emit('progress', progress): every registered onProgress is called
\* in turn, synchronously, and an exception of one of them would leave emit
EmitProgress(ls, socks) ==
  IF \E c \in ls : ResWrite(socks[c]) = "threw" THEN "threw" ELSE "returned"

\* the ProgressManager call of the scan (createScan, updateStep,
\* updatePageScan, updatePageDetails, addLog, completeScan) returns to it
ProgressEmitted == EmitProgress(listeners, sockets) = "returned"

\* ProgressManager.completeScan -> createNotification
Notify(success) ==
  Append(notifications, IF success THEN "scan_completed" ELSE "scan_failed")

\* variant: the row is inserted with quality flags already filled in
NewPageRecordWithQuality(p, res) ==
  [page |-> p, status |-> res.status,
   has_screenshots |-> res.screenshots # {}, screenshot_issues |-> "set"]

\* the row db.createPage inserts for a returned PageResult; of the
\* screenshots column the row keeps whether any viewport has a path
NewPageRecord(p, res) ==
  [page |-> p, status |-> res.status,
   has_screenshots |-> res.screenshots # {}, screenshot_issues |-> "none"]

\* contexts that earlier scanPage calls opened and did not close
EarlierContexts == <<0, "earlier">>

\* a scanPage call starts for sampled page p
BeginPage(p) ==
  /\ ProgressEmitted
  /\ pageIdx' = p
  /\ pc' = "newContext"
  /\ modeIdx' = 1
  /\ result' = NewResult
  /\ respStatus' = 200
  /\ firstViewportPage' = FALSE
  /\ passLog' = <<>>
  /\ emitted' = <<>>
  /\ stepLog' = {}
  /\ attempts' = 0 /\ delays' = 0 /\ failPlan' = 0
  /\ capLog' = NoCapture
  /\ openContexts' = IF openContexts = {} THEN {} ELSE {EarlierContexts}
  /\ UNCHANGED runVars

\* the code after the page loop, up to the first close
CompleteRun ==
  /\ ProgressEmitted
  /\ isScanComplete' = TRUE
  /\ timerArmed' = FALSE
  /\ testStatus' = "completed"
  /\ totalPages' = numSampled
  /\ notifications' = Notify(TRUE)
  /\ pc' = "closeOk"
  /\ UNCHANGED <<runs, callerErrors, watchdogFired, expiredAt, browser,
                 visitor, pageIdx, passVars, capVars>>

\* the for-loop over sampledPages moves on
NextIteration ==
  IF pageIdx < numSampled THEN BeginPage(pageIdx + 1) ELSE CompleteRun

\* the catch of the pipeline's inner try, up to the first close
InnerCatch ==
  /\ ProgressEmitted
  /\ isScanComplete' = TRUE
  /\ timerArmed' = FALSE
  /\ testStatus' = "failed"
  /\ notifications' = Notify(FALSE)
  /\ pc' = "closeFail"
  /\ UNCHANGED <<runs, callerErrors, watchdogFired, expiredAt, totalPages,
                 browser, visitor, pageIdx, passVars, capVars>>

\* variant: the page loop has no catch of its own
PageCatchRethrow == InnerCatch

\* the catch inside the page loop: log and go on with the next page
PageCatch == NextIteration

\* the caller invokes runScan: the watchdog is armed, config is being read
StartScan ==
  /\ pc = "idle" /\ hostAlive
  /\ runs' = runs + 1
  /\ timerArmed' = TRUE
  /\ pc' = "readConfig"
  /\ UNCHANGED <<otherVars, samplerVars, clusterVars, sampleVars, hostAlive, events, callerErrors, isScanComplete, watchdogFired,
                 expiredAt, testStatus, totalPages, browser, visitor,
                 notifications, loopVars, passVars, capVars, passesRun>>

\* an error reaches the outer catch, which rethrows it to the caller
OuterCatch ==
  /\ pc' = "thrown"
  /\ callerErrors' = callerErrors + 1

\* fs.readFile of the config, then createTest and createScan
ReadConfig ==
  /\ pc = "readConfig" /\ hostAlive
  /\ \/ /\ NoFault
        /\ ProgressEmitted
        /\ testStatus' = "running"
        /\ pc' = "launch"
        /\ UNCHANGED callerErrors
     \/ /\ CanFault /\ Fault
        /\ OuterCatch
        /\ UNCHANGED testStatus
  /\ UNCHANGED <<otherVars, samplerVars, clusterVars, sampleVars, hostAlive, runs, timerArmed, isScanComplete, watchdogFired,
                 expiredAt, totalPages, browser, visitor, notifications,
                 loopVars, passVars, capVars, passesRun>>

\* chromium.launch, then the PageVisitor is constructed
Launch ==
  /\ pc = "launch" /\ hostAlive
  /\ \/ /\ NoFault
        /\ browser' = "open"
        /\ pc' = "initVisitor"
        /\ UNCHANGED callerErrors
     \/ /\ CanFault /\ Fault
        /\ OuterCatch
        /\ UNCHANGED browser
  /\ UNCHANGED <<otherVars, samplerVars, clusterVars, sampleVars, hostAlive, runs, timerArmed, isScanComplete, watchdogFired,
                 expiredAt, testStatus, totalPages, visitor, notifications,
                 loopVars, passVars, capVars, passesRun>>

\* pageVisitor.initialize
InitVisitor ==
  /\ pc = "initVisitor" /\ hostAlive
  /\ \/ /\ NoFault
        /\ visitor' = "open"
        /\ pc' = "homepage"
        /\ UNCHANGED callerErrors
     \/ /\ CanFault /\ Fault
        /\ OuterCatch
        /\ UNCHANGED visitor
  /\ UNCHANGED <<otherVars, samplerVars, clusterVars, sampleVars, hostAlive, runs, timerArmed, isScanComplete, watchdogFired,
                 expiredAt, testStatus, totalPages, browser, notifications,
                 loopVars, passVars, capVars, passesRun>>

\* step 1: visitHomepage and the homepage fingerprint; then, without an
\* await in between, the links are sampled and one visit-and-analyze task per
\* sampled link is started, and runScan awaits Promise.all of them
VisitHomepage ==
  /\ pc = "homepage" /\ hostAlive
  /\ \/ /\ visitor = "open" /\ NoFault
        /\ ProgressEmitted
        /\ pc' = "analyze"
        /\ extraction' = [l \in 1..NumLinks |-> "running"]
        /\ UNCHANGED <<runVars, pageIdx, passVars, capVars>>
     \/ /\ visitor = "open" /\ CanFault /\ Fault
        /\ InnerCatch
        /\ UNCHANGED extraction
     \/ /\ visitor # "open" /\ NoFault
        /\ InnerCatch
        /\ UNCHANGED extraction
  /\ UNCHANGED <<otherVars, samplerVars, clusterVars, hostAlive, clustersBuilt, numSampled, pageOutcome, scanIndex,
                 pageRecords, analysis, passesRun>>

\* one entry of visitPromises settles: with the fingerprint, or with null
\* when the visit or the analysis threw
ExtractionSettles(l) ==
  /\ extraction[l] = "running" /\ hostAlive
  /\ \/ /\ visitor = "open" /\ NoFault
        /\ extraction' = [extraction EXCEPT ![l] = "fingerprint"]
     \/ /\ visitor = "open" /\ CanFault /\ Fault
        /\ extraction' = [extraction EXCEPT ![l] = "null"]
     \/ /\ visitor # "open" /\ NoFault
        /\ extraction' = [extraction EXCEPT ![l] = "null"]
  /\ UNCHANGED <<otherVars, samplerVars, clusterVars, pc, hostAlive, clustersBuilt, runVars, loopVars, passVars,
                 capVars, passesRun>>

\* variant: the join is a race, one settled entry is enough
JoinedAny ==
  \E l \in 1..NumLinks : extraction[l] \in {"fingerprint", "null"}

\* Promise.all(visitPromises) has resolved
Joined ==
  \A l \in 1..NumLinks : extraction[l] \in {"fingerprint", "null"}

\* fingerprints.length once the results are collected: the homepage's and
\* one for every entry that is not null
NumFingerprints ==
  1 + Cardinality({l \in 1..NumLinks : extraction[l] = "fingerprint"})

\* the results of the settled entries have been read by the join
Collected ==
  [l \in 1..NumLinks |->
     IF extraction[l] \in {"fingerprint", "null"} THEN "joined"
     ELSE extraction[l]]

\* steps 2-4: the link analyses are joined, clustering and sampling run,
\* and the page loop starts on the first sampled page
AnalyzeAndSample ==
  /\ pc = "analyze" /\ hostAlive
  /\ Joined
  /\ ProgressEmitted
  /\ \E n \in 1..NumPages :
       /\ n <= NumFingerprints
       /\ numSampled' = n
  /\ extraction' = Collected
  /\ clustersBuilt' = TRUE
  /\ BeginPage(1)
  /\ UNCHANGED <<otherVars, samplerVars, clusterVars, hostAlive, events, pageOutcome, scanIndex, pageRecords,
                 analysis, passesRun>>

\* the pcs of a viewport pass in flight
PassPcs == {"newContext", "goto", "settle", "capSetup", "capAttempt",
            "detect", "closePass"}

\* the pcs of a scanPage call in flight
ScanPagePcs == PassPcs \cup {"afterLoop", "seo", "closeFirst"}

\* variant: scanPage is not awaited
ScanPageNotAwaited == pc = "returned" \/ pc \in PassPcs

\* the await on scanner.scanPage has resolved
ScanPageSettled == pc = "returned"

\* scanPage resolved: the page row is created, the quality analysis is
\* dispatched without being awaited, and the loop moves on
RecordPage ==
  /\ ScanPageSettled /\ hostAlive
  /\ \/ /\ NoFault
        /\ ProgressEmitted
        /\ pageRecords' = Append(pageRecords, NewPageRecord(pageIdx, result))
        /\ analysis' = [analysis EXCEPT ![pageIdx] = "pending"]
        /\ pageOutcome' = [pageOutcome EXCEPT ![pageIdx] = "recorded"]
        /\ scanIndex' = scanIndex + 1
        /\ NextIteration
     \/ /\ CanFault /\ Fault
        /\ pageOutcome' = [pageOutcome EXCEPT ![pageIdx] = "threw"]
        /\ UNCHANGED <<pageRecords, analysis, scanIndex>>
        /\ PageCatch
  /\ UNCHANGED <<otherVars, samplerVars, clusterVars, sampleVars, hostAlive, numSampled, passesRun>>

\* scanPage rejected: the page loop's catch takes over
CatchPage ==
  /\ pc = "rejected" /\ hostAlive
  /\ pageOutcome' = [pageOutcome EXCEPT ![pageIdx] = "threw"]
  /\ PageCatch
  /\ UNCHANGED <<otherVars, samplerVars, clusterVars, sampleVars, hostAlive, events, numSampled, pageRecords, analysis,
                 scanIndex, passesRun>>

\* pageVisitor.close and browser.close after completion; runScan returns
CloseAfterComplete ==
  /\ pc = "closeOk" /\ hostAlive
  /\ visitor' = IF visitor = "open" THEN "closed" ELSE visitor
  /\ browser' = "closed"
  /\ openContexts' = {}
  /\ pc' = "done"
  /\ UNCHANGED <<otherVars, samplerVars, clusterVars, sampleVars, hostAlive, events, runs, callerErrors, timerArmed,
                 isScanComplete, watchdogFired, expiredAt, testStatus,
                 totalPages, notifications, loopVars, capVars, modeIdx, result,
                 respStatus, firstViewportPage, passLog, emitted, stepLog,
                 passesRun>>

\* the same closes in the inner catch; then the error is rethrown
CloseAfterFail ==
  /\ pc = "closeFail" /\ hostAlive
  /\ visitor' = IF visitor = "open" THEN "closed" ELSE visitor
  /\ browser' = "closed"
  /\ openContexts' = {}
  /\ OuterCatch
  /\ UNCHANGED <<otherVars, samplerVars, clusterVars, sampleVars, hostAlive, events, runs, timerArmed,
                 isScanComplete, watchdogFired, expiredAt, testStatus,
                 totalPages, notifications, loopVars, capVars, modeIdx, result,
                 respStatus, firstViewportPage, passLog, emitted, stepLog,
                 passesRun>>

\* the part of runScan a suspension point belongs to
Phase(at) ==
  IF at \in ScanPagePcs THEN "scanPage"
  ELSE IF at \in {"readConfig", "launch", "initVisitor"} THEN "setup"
  ELSE IF at \in {"homepage", "analyze"} THEN "sampling"
  ELSE "ended"

\* the watchdog's setTimeout callback
WatchdogFire ==
  /\ timerArmed /\ hostAlive
  /\ pc \notin SyncPoints
  /\ CanFault /\ Fault
  /\ timerArmed' = FALSE
  /\ expiredAt' = Phase(pc)
  /\ IF isScanComplete
     THEN UNCHANGED <<hostAlive, watchdogFired, testStatus, notifications,
                      browser, visitor, openContexts>>
     ELSE IF testStatus = "none"
     THEN \* testId is read before its declaration has run: the callback throws
          /\ hostAlive' = FALSE
          /\ UNCHANGED <<watchdogFired, testStatus, notifications, browser,
                         visitor, openContexts>>
     ELSE /\ ProgressEmitted
          /\ notifications' = Notify(FALSE)
          /\ testStatus' = "failed"
          /\ watchdogFired' = TRUE
          /\ IF browser = "none"
             THEN \* browser is read before its declaration has run
                  /\ hostAlive' = FALSE
                  /\ UNCHANGED <<browser, visitor, openContexts>>
             ELSE /\ browser' = "closed"
                  /\ visitor' = IF visitor = "open" THEN "closed" ELSE visitor
                  /\ openContexts' = {}
                  /\ UNCHANGED hostAlive
  /\ UNCHANGED <<otherVars, samplerVars, clusterVars, sampleVars, pc, runs, callerErrors, isScanComplete, totalPages, loopVars,
                 capVars, modeIdx, result, respStatus, firstViewportPage,
                 passLog, emitted, stepLog, passesRun>>

\* ------------------------------------------ screenshot quality analysis
\* the UPDATE of the page row by the analysis continuation, run only when
\* some screenshot has a quality issue
ApplyQuality(recs, p, flagged) ==
  [k \in 1..Len(recs) |->
     IF recs[k].page = p /\ flagged
     THEN [recs[k] EXCEPT !.screenshot_issues = "set"]
     ELSE recs[k]]

\* some row of page p has a screenshot the analysis can flag
HasScreenshots(recs, p) ==
  \E k \in 1..Len(recs) : recs[k].page = p /\ recs[k].has_screenshots

\* analyzePageScreenshots resolved: the .then continuation runs
AnalysisResolved(p) ==
  /\ analysis[p] = "pending" /\ hostAlive
  /\ \E flagged \in BOOLEAN :
       /\ flagged => HasScreenshots(pageRecords, p)
       /\ IF flagged THEN CanFault /\ Fault ELSE NoFault
       /\ pageRecords' = ApplyQuality(pageRecords, p, flagged)
  /\ analysis' = [analysis EXCEPT ![p] = "applied"]
  /\ UNCHANGED <<otherVars, samplerVars, clusterVars, sampleVars, pc, hostAlive, runVars, numSampled, pageIdx,
                 pageOutcome, scanIndex, passVars, capVars, passesRun>>

\* variant: the rejection is not handled and takes the process down
AnalysisRejectedUnhandled(p) ==
  /\ analysis[p] = "pending" /\ hostAlive
  /\ CanFault /\ Fault
  /\ analysis' = [analysis EXCEPT ![p] = "failed"]
  /\ hostAlive' = FALSE
  /\ UNCHANGED <<otherVars, samplerVars, clusterVars, sampleVars, pc, runVars, numSampled, pageIdx, pageOutcome,
                 scanIndex, pageRecords, passVars, capVars, passesRun>>

\* the analysis (or its continuation) threw: the .catch logs it
AnalysisRejected(p) ==
  /\ analysis[p] = "pending" /\ hostAlive
  /\ CanFault /\ Fault
  /\ analysis' = [analysis EXCEPT ![p] = "failed"]
  /\ UNCHANGED <<otherVars, samplerVars, clusterVars, sampleVars, pc, hostAlive, runVars, numSampled, pageIdx, pageOutcome,
                 scanIndex, pageRecords, passVars, capVars, passesRun>>

Next ==
  \/ StartScan
  \/ ReadConfig
  \/ Launch
  \/ InitVisitor
  \/ VisitHomepage
  \/ \E l \in 1..NumLinks : ExtractionSettles(l)
  \/ AnalyzeAndSample
  \/ NewContext
  \/ Goto
  \/ Settle
  \/ CapSetup
  \/ CapAttempt
  \/ Detect
  \/ ClosePass
  \/ AfterLoop
  \/ Seo
  \/ CloseFirst
  \/ RecordPage
  \/ CatchPage
  \/ CloseAfterComplete
  \/ CloseAfterFail
  \/ WatchdogFire
  \/ \E p \in 1..NumPages : AnalysisResolved(p)
  \/ \E p \in 1..NumPages : AnalysisRejected(p)

Spec == Init /\ [][Next]_vars

TypeOK ==
  /\ pc \in {"idle", "readConfig", "launch", "initVisitor", "homepage",
             "analyze", "newContext", "goto", "settle", "capSetup",
             "capAttempt", "detect", "closePass", "afterLoop", "seo",
             "closeFirst", "returned", "rejected", "closeOk", "closeFail",
             "done", "thrown"}
  /\ testStatus \in {"none", "running", "completed", "failed"}
  /\ browser \in {"none", "open", "closed"}
  /\ visitor \in {"none", "open", "closed"}
  /\ events \in 0..MaxEvents
  /\ attempts \in 0..maxRetries
  /\ modeIdx \in 0..(Len(Modes) + 1)

\* ================================================= SimilarityCalculator
\* A similarity is kept exactly, as an integer number of 1/One: One stands
\* for the similarity 1, and is divisible by every length and count below.
One == 6000

Min2(a, b) == IF a < b THEN a ELSE b

Max2(a, b) == IF a > b THEN a ELSE b

Abs(a) == IF a < 0 THEN 0 - a ELSE a

Front(s) == SubSeq(s, 1, Len(s) - 1)

\* dp[m][n] of the dynamic programme, by its recurrence
RECURSIVE levenshteinDistance(_, _)
levenshteinDistance(str1, str2) ==
  IF Len(str1) = 0 THEN Len(str2)
  ELSE IF Len(str2) = 0 THEN Len(str1)
  ELSE IF str1[Len(str1)] = str2[Len(str2)]
       THEN levenshteinDistance(Front(str1), Front(str2))
       ELSE Min2(levenshteinDistance(Front(str1), str2) + 1,
                 Min2(levenshteinDistance(str1, Front(str2)) + 1,
                      levenshteinDistance(Front(str1), Front(str2)) + 1))

\* variant: without the case of two empty tag sequences
tagSequenceSimilarityNoEmptyCase(fp1, fp2) ==
  IF Len(fp1.tagSequence) = 0 \/ Len(fp2.tagSequence) = 0 THEN 0
  ELSE LET maxLen == Max2(Len(fp1.tagSequence), Len(fp2.tagSequence))
           distance == levenshteinDistance(fp1.tagSequence, fp2.tagSequence)
       IN One - (One * distance) \div maxLen

tagSequenceSimilarity(fp1, fp2) ==
  IF Len(fp1.tagSequence) = 0 /\ Len(fp2.tagSequence) = 0 THEN One
  ELSE IF Len(fp1.tagSequence) = 0 \/ Len(fp2.tagSequence) = 0 THEN 0
  ELSE LET maxLen == Max2(Len(fp1.tagSequence), Len(fp2.tagSequence))
           distance == levenshteinDistance(fp1.tagSequence, fp2.tagSequence)
       IN One - (One * distance) \div maxLen

\* variant: the difference is divided by the first magnitude
MagnitudeSimByFirst(a, b) ==
  IF a = 0 /\ b = 0 THEN One
  ELSE IF a = 0 THEN 0
  ELSE One - (One * Abs(a - b)) \div a

\* a === 0 && b === 0 ? 1 : 1 - |a - b| / max(a, b)
MagnitudeSim(a, b) ==
  IF a = 0 /\ b = 0 THEN One
  ELSE One - (One * Abs(a - b)) \div Max2(a, b)

structuralSimilarity(fp1, fp2) ==
  LET depthSim == MagnitudeSim(fp1.depth, fp2.depth)
      breadthSim == MagnitudeSim(fp1.breadth, fp2.breadth)
      nodeSim == MagnitudeSim(fp1.nodeCount, fp2.nodeCount)
      intersection == fp1.classPatterns \cap fp2.classPatterns
      union == fp1.classPatterns \cup fp2.classPatterns
      classSim == IF Cardinality(union) = 0 THEN One
                  ELSE (One * Cardinality(intersection)) \div Cardinality(union)
  IN (depthSim * 3 + breadthSim * 2 + nodeSim * 2 + classSim * 3) \div 10

calculate(fp1, fp2) ==
  LET tagSim == tagSequenceSimilarity(fp1, fp2)
      structSim == structuralSimilarity(fp1, fp2)
  IN (tagSim * 6 + structSim * 4) \div 10

\* a quotient num / den of similarities, den > 0, kept unreduced
Quotient(n, d) == [num |-> n, den |-> d]

Greater(x, y) == x.num * y.den > y.num * x.den

RECURSIVE SumSimilarities(_, _, _)
SumSimilarities(fp, members, k) ==
  IF k = 0 THEN 0
  ELSE SumSimilarities(fp, members, k - 1) + calculate(fp, members[k])

\* variant: the sum is not divided by the number of members
calculateSummedSimilarity(fp, members) ==
  IF Len(members) = 0 THEN Quotient(0, 1)
  ELSE Quotient(SumSimilarities(fp, members, Len(members)), 1)

calculateAverageSimilarity(fp, members) ==
  IF Len(members) = 0 THEN Quotient(0, 1)
  ELSE Quotient(SumSimilarities(fp, members, Len(members)), Len(members))

\* ==================================================== PageClusterEngine
\* largest number of fingerprints handed to cluster()
MaxFingerprints == 3

\* the fingerprints cluster() is tried on: two URLs, three tag sequences
HomeUrl == "https://shop.example/"

ListUrl == "https://shop.example/list"

Urls == {HomeUrl, ListUrl}

TagSequences == {<<"div">>, <<"ul">>, <<"div", "ul">>}

Fingerprints ==
  {[url |-> u, tagSequence |-> t, classPatterns |-> {"nav"}, depth |-> 3,
    breadth |-> 2, nodeCount |-> 5] : u \in Urls, t \in TagSequences}

Inputs == UNION {[1..n -> Fingerprints] : n \in 0..MaxFingerprints}

\* config.similarityThreshold: 0.75 (the default), 0.7 and 0.5
Thresholds == {(One * 3) \div 4, (One * 7) \div 10, One \div 2}

\* what generateId can return (Date.now() and Math.random() decide)
ClusterIds == {"cluster_a", "cluster_b"}

\* inferCategory on the URLs above; no URL has another of its patterns
inferCategory(fp) ==
  IF fp.url = HomeUrl THEN "homepage"
  ELSE IF fp.url = ListUrl THEN "list_page"
  ELSE IF fp.nodeCount > 1000 /\ fp.depth > 10 THEN "complex_page"
  ELSE IF fp.breadth > 20 THEN "content_heavy"
  ELSE "other"

\* a cluster's members and representative are positions of `fingerprints`
\* (the objects of the input array); MemberFps reads the objects
MemberFps(members) == [k \in 1..Len(members) |-> fingerprints[members[k]]]

\* variant: a strict comparison with the threshold
QualifiesStrictly(avgSimilarity, t) == avgSimilarity.num > t * avgSimilarity.den

\* avgSimilarity >= this.threshold
Qualifies(avgSimilarity, t) == avgSimilarity.num >= t * avgSimilarity.den

RECURSIVE BestMember(_, _, _, _)
\* the for loop of findRepresentative from member k on
BestMember(members, k, bestMember, bestScore) ==
  IF k > Len(members) THEN bestMember
  ELSE LET member == members[k]
           others == SelectSeq(members,
                       LAMBDA m : fingerprints[m].url # fingerprints[member].url)
           avgSim == calculateAverageSimilarity(fingerprints[member],
                                                MemberFps(others))
       IN IF Greater(avgSim, bestScore)
          THEN BestMember(members, k + 1, member, avgSim)
          ELSE BestMember(members, k + 1, bestMember, bestScore)

findRepresentative(members) ==
  IF Len(members) = 1 THEN members[1]
  ELSE BestMember(members, 1, members[1], Quotient(0 - 1, 1))

\* the clusters the inner loop would accept fp into
Matching(fp) ==
  {c \in 1..Len(clusters) :
     Qualifies(calculateAverageSimilarity(fingerprints[fp],
                                          MemberFps(clusters[c].members)),
               threshold)}

\* variant: a matching cluster with the id cluster_a is taken first
MatchedClusterById(fp) ==
  LET preferred == {c \in Matching(fp) : clusters[c].id = "cluster_a"}
      from == IF preferred = {} THEN Matching(fp) ELSE preferred
  IN IF from = {} THEN 0
     ELSE CHOOSE c \in from : \A d \in from : c <= d

\* the inner loop breaks at the first of them; 0 stands for null
MatchedCluster(fp) ==
  IF Matching(fp) = {} THEN 0
  ELSE CHOOSE c \in Matching(fp) : \A d \in Matching(fp) : c <= d

\* variant: the new member goes to the front
PushMemberFirst(members, fp) == <<fp>> \o members

\* matchedCluster.members.push(fp)
PushMember(members, fp) == Append(members, fp)

\* one iteration of the outer loop of cluster()
ClusterFingerprint ==
  /\ fpNext \in 1..Len(fingerprints)
  /\ LET matchedCluster == MatchedCluster(fpNext)
     IN IF matchedCluster # 0
        THEN LET members == PushMember(clusters[matchedCluster].members, fpNext)
             IN clusters' =
                  [clusters EXCEPT
                     ![matchedCluster].members = members,
                     ![matchedCluster].representative =
                        findRepresentative(members)]
        ELSE \E id \in ClusterIds :
               clusters' =
                 Append(clusters,
                        [id |-> id,
                         category |-> inferCategory(fingerprints[fpNext]),
                         members |-> <<fpNext>>,
                         representative |-> fpNext])
  /\ fpNext' = fpNext + 1
  /\ UNCHANGED <<fingerprints, threshold, previous, scanVars, samplerVars, otherVars>>

\* cluster(fingerprints) is called on an engine built with some threshold
InitCluster ==
  /\ ScanInit
  /\ fingerprints \in Inputs
  /\ threshold \in Thresholds
  /\ clusters = <<>>
  /\ fpNext = 1
  /\ previous = <<>>
  /\ SamplerIdle
  /\ OtherIdle

NextCluster == ClusterFingerprint

SpecCluster == InitCluster /\ [][NextCluster]_vars

\* cluster() has returned `clusters`
Returned == fpNext = Len(fingerprints) + 1

\* ============================================================== claims
HasIssue(res, t, m) ==
  \E k \in 1..Len(res.issues) :
    res.issues[k].type = t /\ res.issues[k].viewport = m

CountIssues(res, t, m) ==
  Cardinality({k \in 1..Len(res.issues) :
                 res.issues[k].type = t /\ res.issues[k].viewport = m})

\* a viewport pass has just ended and its step log is still there
PassJustEnded ==
  pc \in {"newContext", "afterLoop"} /\ modeIdx > 1

\* the mode of the pass that has just ended
EndedMode == Modes[modeIdx - 1]

HasError(res) ==
  \E k \in 1..Len(res.issues) : res.issues[k].severity = "error"

Finished == {"done", "thrown"}

\* C1: when a pass of scanPage failed with a timeout issue, the returned
\* PageResult still comes from a run in which all four passes were entered,
\* and it holds every issue the passes produced, in order.
C1_ViewportIndependence ==
  (pc = "returned" /\ \E m \in ModeNames : HasIssue(result, "timeout", m))
    => /\ passLog = Modes
       /\ result.issues = emitted

\* a pass failed on navigation and another viewport recorded its own issue
C1_Witness ==
  /\ pc = "returned"
  /\ \E m, n \in ModeNames :
       /\ m # n
       /\ HasIssue(result, "timeout", m)
       /\ \E t \in {"horizontal_scroll", "js_error", "error_text",
                    "broken_image", "screenshot_failed"} : HasIssue(result, t, n)

\* C2: the PageResult scanPage returns has status "error" exactly when one
\* of its issues has severity "error", and status "success" otherwise.
C2_StatusDerivation ==
  pc = "returned"
    => /\ result.status \in {"success", "error"}
       /\ result.status = "error" <=> HasError(result)

\* a page returned as success although it carries (warning) issues
C2_Witness ==
  /\ pc = "returned"
  /\ result.status = "success"
  /\ Len(result.issues) > 0

\* C3 (for an expiry while pages are being scanned): once the watchdog has
\* expired, the host is alive, the browser resources are closed and the test
\* is, and stays, marked failed.
C3_WatchdogFailsRun ==
  expiredAt = "scanPage"
    => /\ hostAlive
       /\ browser = "closed"
       /\ visitor # "open"
       /\ testStatus = "failed"

\* C4: when runScan has thrown, the test record is not left running, no
\* browser resource is left open, and the caller has got the error once
\* from the single invocation.
C4_WholeScanFailure ==
  pc = "thrown"
    => /\ testStatus # "running"
       /\ browser # "open"
       /\ visitor # "open"
       /\ callerErrors = 1
       /\ runs = 1

C6_ScreenshotFailureIsolated ==
  /\ \A k \in 1..Len(result.issues) :
       result.issues[k].type = "screenshot_failed"
         => result.issues[k].severity = "error"
  /\ PassJustEnded
       => /\ CountIssues(result, "screenshot_failed", EndedMode)
               = IF <<EndedMode, "captureFailed">> \in stepLog THEN 1 ELSE 0
          /\ <<EndedMode, "captureFailed">> \in stepLog
               => /\ <<EndedMode, "detect">> \in stepLog
                  /\ <<EndedMode, "close">> \in stepLog
  /\ (pc = "returned"
        /\ \E m \in ModeNames : HasIssue(result, "screenshot_failed", m))
       => passLog = Modes

\* the screenshot failed persistently in the first pass; the last pass ran
\* its detection step and the page returned
C6_Witness ==
  /\ pc = "returned"
  /\ CountIssues(result, "screenshot_failed", "pc_normal") = 1
  /\ <<"mobile_spider", "detect">> \in stepLog
  /\ "mobile_spider" \in result.screenshots

\* the parts of C7 that do not depend on how a failure came about
CaptureBounds ==
  /\ capLog.attempts <= maxRetries
  /\ capLog.delays = IF capLog.attempts = 0 THEN 0 ELSE capLog.attempts - 1
  /\ capLog.state = "running" => capLog.attempts = capLog.fails
  /\ capLog.state = "ok"
       => /\ capLog.attempts = capLog.fails + 1
          /\ pc # "capAttempt"

\* C7 as stated: at most 3 attempts, one delay before each re-attempt, no
\* attempt after the first success, and a failure is reported only after
\* all 3 attempts have failed.
C7_Original ==
  /\ CaptureBounds
  /\ capLog.state = "failed"
       => capLog.attempts = maxRetries /\ capLog.fails = maxRetries

\* C7 as amended: a failure is reported either after all 3 attempts have
\* failed, or before any attempt when preparing the capture (directory,
\* viewport size) threw.
C7_CaptureRetries ==
  /\ CaptureBounds
  /\ capLog.state = "failed"
       => \/ /\ capLog.cause = "screenshot"
             /\ capLog.attempts = maxRetries
             /\ capLog.fails = maxRetries
          \/ /\ capLog.cause = "setup"
             /\ capLog.attempts = 0

\* a capture that failed on all three attempts, with two delays
C7_Witness ==
  /\ capLog.state = "failed"
  /\ capLog.attempts = maxRetries
  /\ capLog.delays = maxRetries - 1

\* the steps of runScan's own flow
MainFlow ==
  \/ StartScan \/ ReadConfig \/ Launch \/ InitVisitor \/ VisitHomepage
  \/ AnalyzeAndSample \/ NewContext \/ Goto \/ Settle \/ CapSetup
  \/ CapAttempt \/ Detect \/ ClosePass \/ AfterLoop \/ Seo \/ CloseFirst
  \/ RecordPage \/ CatchPage \/ CloseAfterComplete \/ CloseAfterFail

\* C8: while an analysis is pending or has failed, runScan's flow can always
\* take its next step, and the settling of an analysis, either way, changes
\* nothing of that flow.
C8_AnalysisInBackground ==
  /\ [](\A p \in 1..NumPages :
          (analysis[p] \in {"pending", "failed"} /\ hostAlive
             /\ pc \notin Finished)
            => ENABLED MainFlow)
  /\ [][(\E p \in 1..NumPages :
           analysis[p] = "pending" /\ analysis'[p] # "pending")
         => UNCHANGED <<pc, hostAlive, pageIdx, pageOutcome, scanIndex,
                        testStatus, isScanComplete, modeIdx, result>>]_vars

\* the run finished with one analysis failed and another still pending
C8_Witness ==
  /\ pc = "done"
  /\ analysis[1] = "failed"
  /\ analysis[2] = "pending"
  /\ pageOutcome[2] = "recorded"

\* C9: a page row shows quality flags only once the analysis of that page
\* has been applied, and an analysis exists only for a page whose row was
\* created.
C9_QualityAfterPersist ==
  /\ \A k \in 1..Len(pageRecords) :
       pageRecords[k].screenshot_issues # "none"
         => analysis[pageRecords[k].page] = "applied"
  /\ \A p \in 1..NumPages :
       analysis[p] # "none"
         => /\ pageOutcome[p] = "recorded"
            /\ \E k \in 1..Len(pageRecords) : pageRecords[k].page = p

\* one row has its flags applied while another row is still without them
C9_Witness ==
  \E j, k \in 1..Len(pageRecords) :
    /\ pageRecords[j].screenshot_issues = "set"
    /\ pageRecords[k].screenshot_issues = "none"
    /\ analysis[pageRecords[k].page] = "pending"

\* C10: every page row belongs to a page whose four viewport passes have
\* all ended, and there is no row for the page whose scan is in flight.
C10_RecordAfterPasses ==
  /\ \A k \in 1..Len(pageRecords) :
       passesRun[pageRecords[k].page] = Len(Modes)
  /\ pc \in ScanPagePcs
       => \A k \in 1..Len(pageRecords) : pageRecords[k].page # pageIdx

\* the first page has its row while the second page is in a viewport pass
C10_Witness ==
  /\ Len(pageRecords) = 1
  /\ pageIdx = 2
  /\ pc \in PassPcs
  /\ modeIdx = 3

\* C11: the passes of a page are entered in the order pc_normal,
\* mobile_normal, pc_spider, mobile_spider; a pass is entered only when every
\* earlier pass of the page has ended, and only when every earlier page has
\* had all its passes and no later page has had any: at most one pass is in
\* flight.
C11_SequentialPasses ==
  /\ passLog = SubSeq(<<"pc_normal", "mobile_normal", "pc_spider",
                        "mobile_spider">>, 1, Len(passLog))
  /\ pageIdx > 0
       => /\ Len(passLog) - passesRun[pageIdx] \in {0, 1}
          /\ Len(passLog) - passesRun[pageIdx] = 1 <=> pc \in PassPcs \ {"newContext"}
          /\ \A q \in 1..NumPages :
               /\ q < pageIdx => passesRun[q] = 4
               /\ q > pageIdx => passesRun[q] = 0

\* the second page is in its last pass after its first three have ended
C11_Witness ==
  /\ pageIdx = 2
  /\ passLog = <<"pc_normal", "mobile_normal", "pc_spider", "mobile_spider">>
  /\ passesRun[1] = 4
  /\ passesRun[2] = 3
  /\ pc = "capAttempt"

\* C12: once clustering has run, every fingerprint extraction that was
\* started has settled and been collected; and a page scan is in progress or
\* over only when clustering and sampling have both been done, so no
\* extraction is still running during a page scan.
C12_ClusteringBarrier ==
  /\ clustersBuilt
       => \A l \in 1..NumLinks : extraction[l] = "joined"
  /\ pageIdx > 0
       => /\ clustersBuilt
          /\ numSampled > 0
          /\ \A l \in 1..NumLinks : extraction[l] # "running"
  /\ (\E l \in 1..NumLinks : extraction[l] # "joined")
       => pc \notin ScanPagePcs

\* the first page scan starts after the extractions, started together and
\* one of them failed, were joined
C12_Witness ==
  /\ pc = "newContext"
  /\ pageIdx = 1
  /\ modeIdx = 1
  /\ clustersBuilt
  /\ \A l \in 1..NumLinks : extraction[l] = "joined"
  /\ events = 1
  /\ numSampled = 2

\* C13: when scanPage has returned, none of the browser contexts it opened
\* for the passes of this page is still open, and the retained pc_normal page
\* is closed.
C13_ContextsClosed ==
  pc = "returned"
    => /\ \A m \in ModeNames : <<pageIdx, m>> \notin openContexts
       /\ ~firstViewportPage

FailedAt(m, step) == <<m, step>> \in stepLog

IssuesOf(res, m) ==
  Cardinality({k \in 1..Len(res.issues) : res.issues[k].viewport = m})

\* the parts of C14 about a failed navigation to the scanned URL and a
\* rejected capture: the pass ends with the issue for its viewport in the
\* PageResult
NavigationAndCaptureIssues ==
  PassJustEnded
    => /\ FailedAt(EndedMode, "gotoFailed")
            => HasIssue(result, "timeout", EndedMode)
       /\ FailedAt(EndedMode, "captureFailed")
            => HasIssue(result, "screenshot_failed", EndedMode)

\* C14 as stated: a pass in which the navigation failed, the capture was
\* rejected or the content did not settle ends with an issue for its
\* viewport in the PageResult.
C14_Original ==
  /\ NavigationAndCaptureIssues
  /\ (PassJustEnded /\ FailedAt(EndedMode, "settleTimeout"))
       => IssuesOf(result, EndedMode) > 0

\* C14 as amended: a failed navigation to the scanned URL leaves a timeout
\* issue and a rejected capture a screenshot_failed issue for the viewport;
\* a content-settle timeout and a failed homepage pre-visit of a list page
\* add no issue, and the pass goes on to its next step.
C14_TransientFailures ==
  /\ []NavigationAndCaptureIssues
  /\ [][\A m \in ModeNames :
          \A step \in {"settleTimeout", "sessionVisitFailed"} :
            (~FailedAt(m, step) /\ <<m, step>> \in stepLog')
              => /\ result' = result
                 /\ pc' = IF step = "settleTimeout" THEN "capSetup" ELSE "goto"
                 /\ modeIdx' = modeIdx]_vars

\* navigation failed in the first pass; in the second the content did not
\* settle, and the pass ended without an issue for its viewport
C14_Witness ==
  /\ PassJustEnded
  /\ EndedMode = "mobile_normal"
  /\ FailedAt("mobile_normal", "settleTimeout")
  /\ FailedAt("mobile_normal", "close")
  /\ IssuesOf(result, "mobile_normal") = 0
  /\ HasIssue(result, "timeout", "pc_normal")

DetectorTypes ==
  {"js_error", "broken_image", "error_text", "http_error", "request_id"}

C16_LoadFromPcNormalOnly ==
  /\ [](result.loadTime # 0 \/ result.httpStatus # 200
          => /\ Len(passLog) >= 1
             /\ passLog[1] = "pc_normal")
  /\ [][(pc \in PassPcs /\ Modes[modeIdx] # "pc_normal")
          => /\ result'.loadTime = result.loadTime
             /\ result'.httpStatus = result.httpStatus]_vars

\* the mobile_normal pass got an HTTP 500 and the result still shows the
\* status of the pc_normal pass
C16_Witness ==
  /\ pc = "settle"
  /\ Modes[modeIdx] = "mobile_normal"
  /\ respStatus = 500
  /\ result.httpStatus = 200
  /\ result.loadTime = 1

\* C17: a non-spider pass whose page wrote an error to the console while
\* loading, and which went through the error detector, ends with a js_error
\* issue of severity warning for its viewport in the PageResult.
C17_ConsoleErrorsReported ==
  (PassJustEnded /\ ~IsSpider(EndedMode)
     /\ FailedAt(EndedMode, "consoleErrorOnLoad")
     /\ FailedAt(EndedMode, "detect"))
    => \E k \in 1..Len(result.issues) :
         /\ result.issues[k].type = "js_error"
         /\ result.issues[k].severity = "warning"
         /\ result.issues[k].viewport = EndedMode

\* the sum of the similarities of fingerprint i to the fingerprints at the
\* positions ms is at least t times their number
AverageReaches(i, ms, t) ==
  /\ Len(ms) > 0
  /\ SumSimilarities(fingerprints[i], MemberFps(ms), Len(ms)) >= t * Len(ms)

\* C18: cluster() takes the fingerprints in input order; each one is appended
\* to the first cluster, in creation order, whose average similarity to it
\* over the cluster's current members is at least the threshold, and only
\* when no cluster qualifies is a new singleton cluster appended to the list.
C18_FirstQualifyingCluster ==
  [][fpNext' # fpNext =>
       LET qualifying == {c \in 1..Len(clusters) :
                            AverageReaches(fpNext, clusters[c].members, threshold)}
       IN /\ fpNext' = fpNext + 1
          /\ IF qualifying = {}
             THEN /\ Len(clusters') = Len(clusters) + 1
                  /\ \A c \in 1..Len(clusters) : clusters'[c] = clusters[c]
                  /\ clusters'[Len(clusters')].members = <<fpNext>>
             ELSE \E c \in qualifying :
                    /\ \A d \in qualifying : c <= d
                    /\ Len(clusters') = Len(clusters)
                    /\ clusters'[c].members = Append(clusters[c].members, fpNext)
                    /\ \A d \in 1..Len(clusters) :
                         d # c => clusters'[d] = clusters[d]]_vars

\* cluster() has returned, and some fingerprint joined a cluster although a
\* cluster created later qualified for it as well
C18_Witness ==
  /\ Returned
  /\ \E c1 \in 1..Len(clusters), c2 \in 1..Len(clusters) :
       /\ c1 < c2
       /\ \E k \in 2..Len(clusters[c1].members) :
            LET i == clusters[c1].members[k]
            IN AverageReaches(i, SelectSeq(clusters[c2].members,
                                           LAMBDA m : m < i), threshold)

\* the places <<cluster, position>> of the cluster list that hold input i
PlacesOf(i) ==
  {pl \in (1..Len(clusters)) \X (1..Len(fingerprints)) :
     /\ pl[2] <= Len(clusters[pl[1]].members)
     /\ clusters[pl[1]].members[pl[2]] = i}

\* C19: the clusters are a partition of the fingerprints taken so far, and so
\* of the whole input once cluster() returns: every such fingerprint is a
\* member of exactly one cluster, exactly once; no cluster is empty; and each
\* member list is in input order.
C19_Partition ==
  /\ \A i \in 1..Len(fingerprints) :
       Cardinality(PlacesOf(i)) = (IF i < fpNext THEN 1 ELSE 0)
  /\ \A c \in 1..Len(clusters) :
       /\ Len(clusters[c].members) > 0
       /\ \A k \in 1..Len(clusters[c].members) :
            /\ clusters[c].members[k] \in 1..Len(fingerprints)
            /\ \A l \in 1..Len(clusters[c].members) :
                 k < l => clusters[c].members[k] < clusters[c].members[l]

\* cluster() has returned at least two clusters, one of them with several
\* members
C19_Witness ==
  /\ Returned
  /\ Len(fingerprints) >= 3
  /\ Len(clusters) >= 2
  /\ \E c \in 1..Len(clusters) : Len(clusters[c].members) >= 2

\* the sum of the similarities of member m to every other member of members
SumToOthers(m, members) ==
  LET others == SelectSeq(members, LAMBDA o : o # m)
  IN SumSimilarities(fingerprints[m], MemberFps(others), Len(others))

\* C20: after every join, the representative of a cluster is the member
\* whose average similarity to all the other members is highest, the
\* earliest-inserted one among several such members.
C20_Representative ==
  \A c \in 1..Len(clusters) :
    LET members == clusters[c].members
        r == clusters[c].representative
    IN Len(members) >= 2 =>
         \A k \in 1..Len(members) :
           /\ SumToOthers(members[k], members) <= SumToOthers(r, members)
           /\ SumToOthers(members[k], members) = SumToOthers(r, members)
                => r <= members[k]

\* ------------------------------------------- cluster() called once more
\* a returned cluster list without the generated ids
Grouping(cl) ==
  [c \in 1..Len(cl) |->
     [members |-> cl[c].members, representative |-> cl[c].representative,
      category |-> cl[c].category]]

\* the same engine is handed the same array a second time: cluster() starts
\* from an empty list of its own; of the list returned before, the caller's,
\* the history keeps everything but the ids
ClusterAgain ==
  /\ Returned
  /\ previous = <<>>
  /\ previous' = Append(previous, Grouping(clusters))
  /\ clusters' = <<>>
  /\ fpNext' = 1
  /\ UNCHANGED <<fingerprints, threshold, scanVars, samplerVars, otherVars>>

NextRepeated == ClusterFingerprint \/ ClusterAgain

SpecRepeated == InitCluster /\ [][NextRepeated]_vars

\* C21: two executions of cluster() on the same input sequence with the same
\* threshold return the same clusters in the same order, with the same
\* member lists and the same representatives, whatever ids are generated.
C21_Deterministic ==
  Returned =>
    \A n \in 1..Len(previous) : previous[n] = Grouping(clusters)

\* a second execution has returned several clusters under different
\* generated ids, one of the clusters with several members
C21_Witness ==
  /\ Returned
  /\ Len(previous) >= 1
  /\ \E c \in 1..Len(clusters), d \in 1..Len(clusters) :
       /\ Len(clusters[c].members) >= 2
       /\ clusters[c].id # clusters[d].id

\* ------------------------------ cluster() on a stream of five fingerprints
\* the URLs of the five pages, none with a pattern inferCategory knows
StreamUrls ==
  <<"https://shop.example/p/1", "https://shop.example/p/2",
    "https://shop.example/p/3", "https://shop.example/p/4",
    "https://shop.example/p/5">>

StreamDepths == {3, 4}

\* similarities between them: 1 and 0.97 (same tags), 0.7, 0.67, 0.4, 0.37
StreamFingerprint(i, t, d) ==
  [url |-> StreamUrls[i], tagSequence |-> t, classPatterns |-> {"nav"},
   depth |-> d, breadth |-> 2, nodeCount |-> 5]

DefaultThreshold == (One * 3) \div 4

NearDuplicates(a, b) == calculate(a, b) >= DefaultThreshold

\* the three positions of f that hold near-duplicates of one another, the
\* other two holding fingerprints unrelated to each of the three; {} if none
NearDuplicatePositions(f) ==
  LET triples ==
        {N \in SUBSET (1..Len(f)) :
           /\ Cardinality(N) = 3
           /\ \A i \in N, j \in N : NearDuplicates(f[i], f[j])
           /\ \A i \in N, j \in (1..Len(f)) \ N : ~NearDuplicates(f[i], f[j])}
  IN IF triples = {} THEN {} ELSE CHOOSE N \in triples : TRUE

Streams ==
  {f \in {[i \in 1..Len(StreamUrls) |-> StreamFingerprint(i, ts[i], ds[i])] :
            ts \in [1..Len(StreamUrls) -> TagSequences],
            ds \in [1..Len(StreamUrls) -> StreamDepths]} :
     NearDuplicatePositions(f) # {}}

InitStream ==
  /\ ScanInit
  /\ fingerprints \in Streams
  /\ threshold = DefaultThreshold
  /\ clusters = <<>>
  /\ fpNext = 1
  /\ previous = <<>>
  /\ SamplerIdle
  /\ OtherIdle

SpecStream == InitStream /\ [][NextCluster]_vars

\* the positions in N, in input order
RECURSIVE InOrder(_, _)
InOrder(N, upTo) ==
  IF upTo = 0 THEN <<>>
  ELSE IF upTo \in N THEN Append(InOrder(N, upTo - 1), upTo)
       ELSE InOrder(N, upTo - 1)

\* some cluster holds exactly the three near-duplicates, in input order
NearDuplicatesTogether ==
  \E c \in 1..Len(clusters) :
    clusters[c].members =
      InOrder(NearDuplicatePositions(fingerprints), Len(fingerprints))

\* the two other fingerprints are unrelated to each other as well
OthersUnrelated ==
  LET others == (1..Len(fingerprints)) \ NearDuplicatePositions(fingerprints)
  IN \E i \in others, j \in others :
       ~NearDuplicates(fingerprints[i], fingerprints[j])

\* C22 as stated: with threshold 0.75, a stream of five fingerprints, three
\* of them near-duplicates of one another and two unrelated to them, comes
\* back as exactly two clusters, one of them holding the three.
C22_Original ==
  Returned => Len(clusters) = 2 /\ NearDuplicatesTogether

\* C22 amended: the three near-duplicates come back as one cluster of
\* exactly those three; the two others add one cluster when they resemble
\* each other and two when they do not, so there are two or three clusters.
C22_StreamOfFive ==
  Returned =>
    /\ NearDuplicatesTogether
    /\ Len(clusters) = (IF OthersUnrelated THEN 3 ELSE 2)

\* the stream has been clustered and its two other fingerprints are
\* unrelated to each other
C22_Witness ==
  Returned /\ OthersUnrelated /\ Len(clusters) = 3 /\ NearDuplicatesTogether

\* ========================================================= SmartSampler
\* largest number of fingerprints in the clusters handed to the sampler
MaxMembers == 3

minDetailPages == 3

minListPages == 3

\* the pages the sampler is tried on; the first two detail pages share a
\* template and so does each pair of list pages
DetailUrls ==
  {"https://shop.example/products/1", "https://shop.example/products/2",
   "https://shop.example/products/3"}

ListUrls == {"https://shop.example/cars/suv", "https://shop.example/cars/van"}

OtherUrl == "https://shop.example/about"

SamplerUrls == DetailUrls \cup ListUrls \cup {OtherUrl}

\* the tag sequence DOMAnalyzer found at a URL
TagSequenceAt(u) ==
  IF u \in {"https://shop.example/products/1", "https://shop.example/products/2"}
  THEN <<"div">>
  ELSE IF u \in DetailUrls THEN <<"div", "ul">>
  ELSE <<"ul">>

PageAt(u) ==
  [url |-> u, tagSequence |-> TagSequenceAt(u), classPatterns |-> {"nav"},
   depth |-> 3, breadth |-> 2, nodeCount |-> 5]

\* identifyPageType with patterns that match the detail and the list URLs
identifyPageType(url) ==
  IF url = HomeUrl THEN "homepage"
  ELSE IF url \in DetailUrls THEN "detail"
  ELSE IF url \in ListUrls THEN "list"
  ELSE "other"

\* { ...fp, pageType }: a typed copy of the fingerprint at position ref
Typed(ref) ==
  [ref |-> ref, url |-> fingerprints[ref].url,
   pageType |-> identifyPageType(fingerprints[ref].url),
   tagSequence |-> fingerprints[ref].tagSequence,
   classPatterns |-> fingerprints[ref].classPatterns,
   depth |-> fingerprints[ref].depth, breadth |-> fingerprints[ref].breadth,
   nodeCount |-> fingerprints[ref].nodeCount]

\* selected.includes(member): the same object
Includes(sel, member) == \E k \in 1..Len(sel) : sel[k].ref = member.ref

\* the inner for loop: the highest similarity of member to a selected one
RECURSIVE MaxSimTo(_, _, _)
MaxSimTo(member, sel, k) ==
  IF k = 0 THEN 0
  ELSE Max2(MaxSimTo(member, sel, k - 1), calculate(member, sel[k]))

\* variant: minMaxSimilarity starts above every similarity
StartAboveOne == One + 1

\* let minMaxSimilarity = 1
StartAtOne == One

\* the for loop over members from member k on; 0 stands for null
RECURSIVE BestCandidate(_, _, _, _, _)
BestCandidate(members, sel, k, bestCandidate, minMaxSimilarity) ==
  IF k > Len(members) THEN bestCandidate
  ELSE IF Includes(sel, members[k])
       THEN BestCandidate(members, sel, k + 1, bestCandidate, minMaxSimilarity)
       ELSE LET maxSim == MaxSimTo(members[k], sel, Len(sel))
            IN IF maxSim < minMaxSimilarity
               THEN BestCandidate(members, sel, k + 1, k, maxSim)
               ELSE BestCandidate(members, sel, k + 1, bestCandidate,
                                  minMaxSimilarity)

\* the while loop of selectDiversePages from `sel` on
RECURSIVE SelectLoop(_, _, _)
SelectLoop(members, sel, maxSamples) ==
  IF ~(Len(sel) < maxSamples) THEN sel
  ELSE LET best == BestCandidate(members, sel, 1, 0, StartAtOne)
       IN IF best # 0
          THEN SelectLoop(members, Append(sel, members[best]), maxSamples)
          ELSE sel

selectDiversePages(members, maxSamples) ==
  IF Len(members) <= maxSamples THEN members
  ELSE SelectLoop(members, <<members[1]>>, maxSamples)

\* Array.from(sampled.values()).flat(), and getSampledPages as well
RECURSIVE Flat(_, _)
Flat(entries, k) ==
  IF k = 0 THEN <<>> ELSE Flat(entries, k - 1) \o entries[k]

CountType(pages, t) ==
  Cardinality({k \in 1..Len(pages) : pages[k].pageType = t})

UrlsOf(pages) == {pages[k].url : k \in 1..Len(pages)}

\* cluster.members.find(...): <<>> stands for undefined
FindIn(members, pageType, excludeUrls) ==
  LET hits == {k \in 1..Len(members) :
                 /\ members[k].pageType = pageType
                 /\ members[k].url \notin excludeUrls}
  IN IF hits = {} THEN <<>>
     ELSE <<members[CHOOSE k \in hits : \A l \in hits : k <= l]>>

\* findPageByType from cluster c on: <<>> stands for null
RECURSIVE FindFrom(_, _, _, _)
FindFrom(cls, c, pageType, excludeUrls) ==
  IF c > Len(cls) THEN <<>>
  ELSE IF FindIn(cls[c].members, pageType, excludeUrls) # <<>>
       THEN FindIn(cls[c].members, pageType, excludeUrls)
       ELSE FindFrom(cls, c + 1, pageType, excludeUrls)

\* variant: no URL is excluded
findPageByTypeUnfiltered(cls, pageType, exclude) ==
  FindFrom(cls, 1, pageType, {})

findPageByType(cls, pageType, exclude) ==
  FindFrom(cls, 1, pageType, UrlsOf(exclude))

\* variant: the page is not put into the Map
addToSampleDropped(smp, cls, page) == smp

\* addToSample: the page goes to the entry of the first cluster that has a
\* member with its URL.  (An entry that is the members array itself, as
\* selectDiversePages returns for a small cluster, is never the one pushed
\* to: all its URLs are in `exclude` when the page is looked for.)
addToSample(smp, cls, page) ==
  LET owners == {c \in 1..Len(cls) : page.url \in UrlsOf(cls[c].members)}
  IN IF owners = {} THEN smp
     ELSE LET c == CHOOSE o \in owners : \A d \in owners : o <= d
          IN [smp EXCEPT ![c] = Append(smp[c], page)]

\* one of the two for loops of ensurePageTypes, with `needed - i` rounds left;
\* the result is <<sampled, allSampled>>
RECURSIVE Backfill(_, _, _, _, _)
Backfill(smp, cls, allSampled, pageType, rounds) ==
  IF rounds <= 0 THEN <<smp, allSampled>>
  ELSE LET page == findPageByType(cls, pageType, allSampled)
       IN IF page = <<>> THEN <<smp, allSampled>>
          ELSE Backfill(addToSample(smp, cls, page[1]), cls,
                        Append(allSampled, page[1]), pageType, rounds - 1)

ensurePageTypes(smp, cls) ==
  LET allSampled == Flat(smp, Len(smp))
      detailCount == CountType(allSampled, "detail")
      afterDetail == Backfill(smp, cls, allSampled, "detail",
                              minDetailPages - detailCount)
      listCount == CountType(afterDetail[2], "list")
      afterList == Backfill(afterDetail[1], cls, afterDetail[2], "list",
                            minListPages - listCount)
  IN afterList[1]

\* sampleFromClusters up to the call of ensurePageTypes: the members get
\* their page types and every cluster its selection
SampleClusters ==
  /\ samplerPc = "sample"
  /\ LET typed == [c \in 1..Len(clusters) |->
                     [id |-> clusters[c].id, category |-> clusters[c].category,
                      members |-> [k \in 1..Len(clusters[c].members) |->
                                     Typed(clusters[c].members[k])]]]
     IN /\ typedClusters' = typed
        /\ sampled' = [c \in 1..Len(typed) |->
                         selectDiversePages(typed[c].members,
                                            maxPagesPerCategory)]
  /\ samplerPc' = "ensure"
  /\ UNCHANGED <<maxPagesPerCategory, selected, allPages, clusterVars, scanVars, otherVars>>

\* the call of ensurePageTypes, and sampleFromClusters returns
EnsurePageTypes ==
  /\ samplerPc = "ensure"
  /\ sampled' = ensurePageTypes(sampled, typedClusters)
  /\ samplerPc' = "flatten"
  /\ UNCHANGED <<maxPagesPerCategory, typedClusters, selected, allPages,
                 clusterVars, scanVars, otherVars>>

GetSampledPages ==
  /\ samplerPc = "flatten"
  /\ allPages' = Flat(sampled, Len(sampled))
  /\ samplerPc' = "done"
  /\ UNCHANGED <<maxPagesPerCategory, typedClusters, sampled, selected,
                 clusterVars, scanVars, otherVars>>

\* the clusters of n fingerprints cut after the positions in cuts
ClustersCutAt(n, cuts) ==
  LET starts == InOrder({1} \cup {c + 1 : c \in cuts}, n)
      endOf(k) == IF k = Len(starts) THEN n ELSE starts[k + 1] - 1
  IN [k \in 1..Len(starts) |->
        [id |-> k,
         category |-> "other",
         members |-> [j \in 1..(endOf(k) - starts[k] + 1) |-> starts[k] + j - 1],
         representative |-> starts[k]]]

\* configured values of maxPagesPerCategory (3 is the default)
PerCategoryChoices == 0..3

\* the sampler is handed some non-empty clusters of some pages
InitSampler ==
  /\ ScanInit
  /\ \E n \in 1..MaxMembers :
       /\ fingerprints \in [1..n -> {PageAt(u) : u \in SamplerUrls}]
       /\ \E cuts \in SUBSET (1..(n - 1)) : clusters = ClustersCutAt(n, cuts)
  /\ threshold = DefaultThreshold
  /\ fpNext = 0
  /\ previous = <<>>
  /\ samplerPc = "sample"
  /\ maxPagesPerCategory \in PerCategoryChoices
  /\ typedClusters = <<>>
  /\ sampled = <<>>
  /\ selected = <<>>
  /\ allPages = <<>>
  /\ OtherIdle

NextSampler == SampleClusters \/ EnsurePageTypes \/ GetSampledPages

SpecSampler == InitSampler /\ [][NextSampler]_vars

\* C23: when the per-cluster selection of sampleFromClusters is done and the
\* type-balancing backfill has not yet run, no cluster's sample holds more
\* than maxPerCategory fingerprints, whatever maxPerCategory is configured.
C23_PerClusterCap ==
  samplerPc = "ensure" =>
    \A c \in 1..Len(sampled) : Len(sampled[c]) <= maxPagesPerCategory

\* ------------------------------------ selectDiversePages, step by step
\* largest number of members of the cluster selectDiversePages is tried on
MaxSelectFrom == 4

\* the members array of the call
SelectMembers == typedClusters[1].members

\* selectDiversePages up to its while loop
SelectStart ==
  /\ samplerPc = "select"
  /\ IF Len(SelectMembers) <= maxPagesPerCategory
     THEN /\ selected' = SelectMembers
          /\ samplerPc' = "selectReturned"
     ELSE /\ selected' = <<SelectMembers[1]>>
          /\ samplerPc' = "selectLoop"
  /\ UNCHANGED <<maxPagesPerCategory, typedClusters, sampled, allPages,
                 clusterVars, scanVars, otherVars>>

\* the test of the while loop and, if it passes, one round of its body
SelectNext ==
  /\ samplerPc = "selectLoop"
  /\ IF Len(selected) < maxPagesPerCategory
     THEN LET bestCandidate ==
                BestCandidate(SelectMembers, selected, 1, 0, StartAtOne)
          IN IF bestCandidate # 0
             THEN /\ selected' = Append(selected, SelectMembers[bestCandidate])
                  /\ UNCHANGED samplerPc
             ELSE /\ samplerPc' = "selectReturned"
                  /\ UNCHANGED selected
     ELSE /\ samplerPc' = "selectReturned"
          /\ UNCHANGED selected
  /\ UNCHANGED <<maxPagesPerCategory, typedClusters, sampled, allPages,
                 clusterVars, scanVars, otherVars>>

\* selectDiversePages is called on the typed members of one cluster
InitSelect ==
  /\ ScanInit
  /\ \E n \in 1..MaxSelectFrom :
       /\ fingerprints \in [1..n -> {PageAt(u) : u \in SamplerUrls}]
       /\ clusters = ClustersCutAt(n, {})
       /\ typedClusters =
            <<[id |-> 1, category |-> "other",
               members |-> [k \in 1..n |-> Typed(k)]]>>
  /\ threshold = DefaultThreshold
  /\ fpNext = 0
  /\ previous = <<>>
  /\ samplerPc = "select"
  /\ maxPagesPerCategory \in PerCategoryChoices
  /\ sampled = <<>>
  /\ selected = <<>>
  /\ allPages = <<>>
  /\ OtherIdle

NextSelect == SelectStart \/ SelectNext

SpecSelect == InitSelect /\ [][NextSelect]_vars

\* the members not yet selected
Unselected ==
  {k \in 1..Len(SelectMembers) : ~Includes(selected, SelectMembers[k])}

\* the highest similarity of member k to an already selected member
ClosestSelected(k) == MaxSimTo(SelectMembers[k], selected, Len(selected))

\* the selection stopped short of maxPerCategory with members left over
StoppedShort ==
  /\ samplerPc = "selectReturned"
  /\ Len(selected) < maxPagesPerCategory
  /\ Unselected # {}

\* C24: for a cluster with more members than maxPerCategory the selection
\* starts from the first member, every member added after it is an
\* unselected one whose highest similarity to an already selected member is
\* the smallest, and the selection stops only when maxPerCategory members
\* are selected or no unselected member is left.
C24_DiverseSelection ==
  /\ [](Len(SelectMembers) > maxPagesPerCategory
          => /\ samplerPc # "select" => selected[1] = SelectMembers[1]
             /\ ~StoppedShort)
  /\ [][(samplerPc = "selectLoop" /\ selected' # selected) =>
          \E k \in Unselected :
            /\ selected' = Append(selected, SelectMembers[k])
            /\ \A l \in Unselected : ClosestSelected(k) <= ClosestSelected(l)]_vars

\* every typed member of every cluster, in cluster order
AllMembers ==
  Flat([c \in 1..Len(typedClusters) |-> typedClusters[c].members],
       Len(typedClusters))

\* the distinct URLs of the members of type t
UrlsOfType(t) ==
  {AllMembers[k].url : k \in {j \in 1..Len(AllMembers) : AllMembers[j].pageType = t}}

\* sampleFromClusters has returned
Sampled == samplerPc \in {"flatten", "done"}

\* C25 as stated: after sampleFromClusters, backfill included, the flattened
\* sample holds at least min(3, detail-type pages in all clusters) detail-type
\* pages and at least min(3, list-type pages in all clusters) list-type pages.
C25_Original ==
  Sampled =>
    \A t \in {"detail", "list"} :
      CountType(Flat(sampled, Len(sampled)), t)
        >= Min2(3, CountType(AllMembers, t))

\* C25 amended: the flattened sample holds at least min(3, distinct URLs of
\* detail-type pages in all clusters) detail-type fingerprints, and likewise
\* for list-type pages: a page whose URL is already in the sample is not
\* there to be pulled in.
C25_TypeBalance ==
  Sampled =>
    \A t \in {"detail", "list"} :
      CountType(Flat(sampled, Len(sampled)), t)
        >= Min2(3, Cardinality(UrlsOfType(t)))

\* the backfill has pulled a detail or a list page into a cluster's sample
\* after the per-cluster selection had left it out
C25_Witness ==
  /\ Sampled
  /\ \E c \in 1..Len(sampled) :
       /\ Len(sampled[c]) > Max2(maxPagesPerCategory, 1)
       /\ Len(sampled[c]) < Len(typedClusters[c].members)
       /\ sampled[c][Len(sampled[c])].pageType \in {"detail", "list"}

\* no two of the pages have the same URL
DistinctUrls(pages) ==
  \A k \in 1..Len(pages), l \in 1..Len(pages) :
    k # l => pages[k].url # pages[l].url

\* C26 as stated: the flat list returned by getSampledPages holds no two
\* fingerprints with the same URL.
C26_Original ==
  samplerPc = "done" => DistinctUrls(allPages)

\* the fingerprints the per-cluster selection chose, before any backfill
SelectionOf(c) ==
  selectDiversePages(typedClusters[c].members, maxPagesPerCategory)

\* C26 amended: getSampledPages concatenates the samples as they are.  The
\* backfill never adds a fingerprint whose URL the list already holds, so the
\* list is free of repeated URLs exactly when the per-cluster selections are,
\* and always when no two fingerprints of the clusters share a URL.
C26_NoAddedDuplicates ==
  samplerPc = "done" =>
    /\ allPages = Flat(sampled, Len(sampled))
    /\ DistinctUrls(allPages)
         <=> DistinctUrls(Flat([c \in 1..Len(typedClusters) |-> SelectionOf(c)],
                               Len(typedClusters)))
    /\ DistinctUrls(AllMembers) => DistinctUrls(allPages)

\* getSampledPages has returned a list with backfilled pages in it, from
\* clusters without a repeated URL
C26_Witness ==
  /\ samplerPc = "done"
  /\ DistinctUrls(AllMembers)
  /\ \E c \in 1..Len(sampled) : Len(sampled[c]) > Len(SelectionOf(c))

\* ================================== SimilarityCalculator.calculate, called
\* the fingerprints calculate is called with: tag sequences of every length
\* up to three, the empty one included; depth, breadth and node count with
\* zero among them; class patterns with the empty list among them
CalcTagSequences == {<<>>, <<"div">>, <<"div", "ul">>, <<"ul", "div", "ul">>}

CalcDepths == {0, 3, 4}

CalcBreadths == {0, 2}

CalcNodeCounts == {0, 5}

CalcClassPatterns == {{}, {"nav"}, {"nav", "card"}}

CalcFingerprints ==
  {[url |-> HomeUrl, tagSequence |-> t, classPatterns |-> c, depth |-> d,
    breadth |-> b, nodeCount |-> n] :
     t \in CalcTagSequences, c \in CalcClassPatterns, d \in CalcDepths,
     b \in CalcBreadths, n \in CalcNodeCounts}

\* calculate(fp1, fp2) returns
Calculate ==
  /\ similarity = -1
  /\ Len(fingerprints) = 2
  /\ similarity' = calculate(fingerprints[1], fingerprints[2])
  /\ UNCHANGED <<analyzerVars, consumerVars, extraVars, clusterVars, samplerVars,
                 scanVars>>

\* calculate is about to be called with some pair of fingerprints
InitCalculate ==
  /\ ScanInit
  /\ fingerprints \in [1..2 -> CalcFingerprints]
  /\ threshold = 0
  /\ clusters = <<>>
  /\ fpNext = 0
  /\ previous = <<>>
  /\ SamplerIdle
  /\ OtherIdle

NextCalculate == Calculate

SpecCalculate == InitCalculate /\ [][NextCalculate]_vars

\* calculate(fp1, fp2) has returned
Calculated == similarity # -1

\* C27: similarity is symmetric: whatever the two fingerprints, the value
\* calculate(a, b) returned is the value of calculate(b, a).
C27_Symmetric ==
  Calculated => similarity = calculate(fingerprints[2], fingerprints[1])

\* calculate has returned a similarity strictly between 0 and 1 for two
\* fingerprints that differ in tag sequence, depth and class patterns
C27_Witness ==
  /\ Calculated
  /\ Len(fingerprints[1].tagSequence) < Len(fingerprints[2].tagSequence)
  /\ 0 < fingerprints[1].depth
  /\ fingerprints[1].depth < fingerprints[2].depth
  /\ fingerprints[1].classPatterns # fingerprints[2].classPatterns
  /\ 0 < similarity
  /\ similarity < One

\* C28: similarity is reflexive: whatever the fingerprint a, the degenerate
\* ones (no tags, zero depth, breadth or node count, no class patterns)
\* included, calculate(a, a) returns 1.
C28_Reflexive ==
  (Calculated /\ fingerprints[1] = fingerprints[2]) => similarity = One

\* calculate(a, a) has returned for a fingerprint with no tags, no class
\* patterns and zero depth
C28_Witness ==
  /\ Calculated
  /\ fingerprints[1] = fingerprints[2]
  /\ fingerprints[1].tagSequence = <<>>
  /\ fingerprints[1].classPatterns = {}
  /\ fingerprints[1].depth = 0
  /\ similarity = One

\* ===================================================== ScreenshotAnalyzer
ALL_WHITE_THRESHOLD == 98

MOSTLY_WHITE_THRESHOLD == 92

PC_WARNING_THRESHOLD == 80

\* the screenshot is resized to 50 x 50 before its pixels are counted
TotalPixels == 50 * 50

Viewports == {"pc_normal", "mobile_normal", "pc_spider", "mobile_spider"}

\* how many of the downsampled pixels have r, g and b all above 240:
\* 50%, 80%, 93% and 99% of them
WhitePixelCounts == {1250, 2000, 2325, 2475}

\* what screenshots[viewport] can be: no path, the path of a file that
\* cannot be read, or the path of an image
ScreenshotFiles ==
  {[path |-> FALSE, readable |-> FALSE, whitePixels |-> 0],
   [path |-> TRUE, readable |-> FALSE, whitePixels |-> 0]}
  \cup {[path |-> TRUE, readable |-> TRUE, whitePixels |-> w] :
          w \in WhitePixelCounts}

toPercent(value) == IF value <= 1 THEN value * 100 ELSE value

\* (whitePixels / totalPixels) * 100
getImageStats(file) ==
  [whitePercentage |-> (file.whitePixels * 100) \div TotalPixels]

\* what the catch block of either analysis returns
FailedToAnalyze ==
  [type |-> "error", severity |-> "error", whitePercentage |-> 100]

analyzeScreenshot(file) ==
  IF ~file.readable THEN FailedToAnalyze
  ELSE LET stats == getImageStats(file)
       IN IF stats.whitePercentage >= toPercent(ALL_WHITE_THRESHOLD)
          THEN [type |-> "all_white", severity |-> "error",
                whitePercentage |-> stats.whitePercentage]
          ELSE IF stats.whitePercentage >= toPercent(MOSTLY_WHITE_THRESHOLD)
          THEN [type |-> "mostly_white", severity |-> "warning",
                whitePercentage |-> stats.whitePercentage]
          ELSE [type |-> "normal", severity |-> "info",
                whitePercentage |-> stats.whitePercentage]

analyzeScreenshotWithThreshold(file, customThreshold) ==
  IF ~file.readable THEN FailedToAnalyze
  ELSE LET stats == getImageStats(file)
           thresholdPct == toPercent(customThreshold)
       IN IF stats.whitePercentage >= thresholdPct
          THEN [type |-> "mostly_white", severity |-> "error",
                whitePercentage |-> stats.whitePercentage]
          ELSE [type |-> "normal", severity |-> "info",
                whitePercentage |-> stats.whitePercentage]

PcViewport(viewport) == viewport = "pc_normal" \/ viewport = "pc_spider"

\* variant: every viewport is analyzed with the two general thresholds
AnalyzeViewportAlike(viewport, file) == analyzeScreenshot(file)

\* the body of the loop of analyzePageScreenshots
AnalyzeViewport(viewport, file) ==
  IF PcViewport(viewport)
  THEN analyzeScreenshotWithThreshold(file, PC_WARNING_THRESHOLD)
  ELSE analyzeScreenshot(file)

\* analyzePageScreenshots(screenshots) returns its results
AnalyzePageScreenshots ==
  /\ DOMAIN screenshot # {}
  /\ DOMAIN quality = {}
  /\ quality' = [v \in {w \in Viewports : screenshot[w].path} |->
                   AnalyzeViewport(v, screenshot[v])]
  /\ UNCHANGED <<screenshot, calcVars, consumerVars, extraVars, clusterVars,
                 samplerVars, scanVars>>

\* analyzePageScreenshots is about to be called with the screenshots of a
\* page
InitAnalyzer ==
  /\ ScanInit
  /\ ClusterIdle
  /\ SamplerIdle
  /\ CalcIdle
  /\ ConsumersAbsent
  /\ ExtraIdle
  /\ screenshot \in [Viewports -> ScreenshotFiles]
  /\ quality = <<>>

NextAnalyzer == AnalyzePageScreenshots

SpecAnalyzer == InitAnalyzer /\ [][NextAnalyzer]_vars

\* the image of this viewport was counted, and this share of its
\* downsampled pixels is near-white
AnalyzedAt(v, percent) ==
  /\ v \in DOMAIN quality
  /\ screenshot[v].readable
  /\ screenshot[v].whitePixels * 100 = percent * TotalPixels

Classified(v, type, severity) ==
  /\ quality[v].type = type
  /\ quality[v].severity = severity

Connect(c) ==
  /\ hostAlive
  /\ sockets[c] = "none"
  /\ sockets' = [sockets EXCEPT ![c] = "open"]
  /\ listeners' = listeners \cup {c}
  /\ UNCHANGED <<calcVars, analyzerVars, extraVars, clusterVars, samplerVars,
                 scanVars>>

\* the client goes away in the middle of the stream: its socket is closed,
\* the 'close' handler of the request has not run yet
Disconnect(c) ==
  /\ hostAlive
  /\ sockets[c] = "open"
  /\ sockets' = [sockets EXCEPT ![c] = "closed"]
  /\ UNCHANGED <<listeners, calcVars, analyzerVars, extraVars, clusterVars,
                 samplerVars, scanVars>>

\* req.on('close'): onProgress is taken off the ProgressManager
CloseHandler(c) ==
  /\ hostAlive
  /\ sockets[c] = "closed"
  /\ sockets' = [sockets EXCEPT ![c] = "none"]
  /\ listeners' = listeners \ {c}
  /\ UNCHANGED <<calcVars, analyzerVars, extraVars, clusterVars, samplerVars,
                 scanVars>>

\* a step of the scan; with consumers the scan is followed with one
\* abnormal outcome fewer than alone
ScanStep == Next /\ events' < MaxEvents

NextProgress ==
  \/ ScanStep
  \/ \E c \in Consumers : Connect(c)
  \/ \E c \in Consumers : Disconnect(c)
  \/ \E c \in Consumers : CloseHandler(c)

SpecProgress == Init /\ [][NextProgress]_vars

C31_StatusChangesOnce ==
  [][/\ testStatus = "failed" => testStatus' = "failed"
     /\ testStatus = "completed" => testStatus' = "completed"]_vars

\* C32: on every exit path of runScan, the normal return and every thrown
\* error, a failure during setup included, the watchdog timer has been
\* cancelled, so the watchdog callback cannot run after runScan finished.
C32_TimerCancelledOnExit ==
  pc \in Finished => ~timerArmed

\* C33: completeScan is invoked at most once for a test, so at most one
\* terminal notification (scan_completed or scan_failed) is created per
\* scan.
C33_OneTerminalNotification ==
  Len(notifications) <= 1

\* C34: when a run completes, the total_pages recorded on the test equals
\* the number of page records created for that test.
C34_TotalPagesIsRecordCount ==
  testStatus = "completed" => totalPages = Len(pageRecords)

\* ============================== the category lookup of runScan's page loop
\* sampler.sampleFromClusters is called with the clusters cluster() returned
StartSampling ==
  /\ Returned
  /\ Len(clusters) > 0
  /\ samplerPc = "idle"
  /\ samplerPc' = "sample"
  /\ maxPagesPerCategory' \in PerCategoryChoices
  /\ UNCHANGED <<typedClusters, sampled, selected, allPages, clusterVars,
                 scanVars, otherVars>>

\* the object at position ref of the array handed to cluster()
OriginalObject(ref) == [copy |-> FALSE, ref |-> ref]

\* the object { ...fp, pageType } sampleFromClusters made of it
TypedObject(typedFp) == [copy |-> TRUE, ref |-> typedFp.ref]

\* c.members.includes(pageFp): some member is the same object as pageFp
MembersInclude(members, pageFp) ==
  \E k \in 1..Len(members) : OriginalObject(members[k]) = TypedObject(pageFp)

\* clusters.find(c => c.members.includes(pageFp)), 0 for undefined
FindPageCluster(pageFp) ==
  IF \E c \in 1..Len(clusters) : MembersInclude(clusters[c].members, pageFp)
  THEN CHOOSE c \in 1..Len(clusters) :
         /\ MembersInclude(clusters[c].members, pageFp)
         /\ \A b \in 1..(c - 1) : ~MembersInclude(clusters[b].members, pageFp)
  ELSE 0

\* pageCluster?.category || 'other'
CategoryFor(pageFp) ==
  LET pageCluster == FindPageCluster(pageFp)
  IN IF pageCluster = 0 THEN "other" ELSE clusters[pageCluster].category

\* the page loop computes the category of every sampled page
StoreCategories ==
  /\ samplerPc = "done"
  /\ storedCategories = <<>>
  /\ Len(allPages) > 0
  /\ storedCategories' = [k \in 1..Len(allPages) |-> CategoryFor(allPages[k])]
  /\ UNCHANGED <<multiDomain, db, store, visits, calcVars, analyzerVars, consumerVars,
                 clusterVars, samplerVars, scanVars>>

NextCategory ==
  \/ ClusterFingerprint
  \/ StartSampling
  \/ SampleClusters
  \/ EnsurePageTypes
  \/ GetSampledPages
  \/ StoreCategories

SpecCategory == InitCluster /\ [][NextCategory]_vars

\* the cluster whose members hold the fingerprint at position ref
ClusterHolding(ref) ==
  CHOOSE c \in 1..Len(clusters) :
    \E k \in 1..Len(clusters[c].members) : clusters[c].members[k] = ref

\* C35: the category stored for each scanned page is the category of the
\* cluster that contains that page's fingerprint.
C35_CategoryOfCluster ==
  \A k \in 1..Len(storedCategories) :
    storedCategories[k] = clusters[ClusterHolding(allPages[k].ref)].category

\* ======================================== the domain loop of runScan
\* the most pages the sampler hands to the page loop
MaxSampledPages == 2

\* the domain runScan is called with, as the labels of its host name
PrimaryHost == <<"en", "shop", "example">>

DomainCodes == {"en", "ar", "ru"}

PagePaths == {"/", "/a", "/b"}

\* sequences without repetition
Distinct(S, n) ==
  {s \in [1..n -> S] : \A i, j \in 1..n : s[i] = s[j] => i = j}

\* the configured lists of domain codes: none, or up to three codes with
\* the code of the primary domain at any position
DomainLists ==
  {<<>>} \cup {s \in UNION {Distinct(DomainCodes, n) : n \in 1..3} :
                 \E i \in 1..Len(s) : s[i] = PrimaryHost[1]}

\* the sampled pages: pages of the primary domain with different paths
SampledPageLists ==
  UNION {Distinct({[host |-> PrimaryHost, path |-> p] : p \in PagePaths}, n) :
           n \in 1..MaxSampledPages}

\* the first label of the host name is replaced by newDomain when the host
\* name has two labels or more; oldDomain is not looked at
replaceDomainInUrl(url, oldDomain, newDomain) ==
  IF Len(url.host) >= 2
  THEN [url EXCEPT !.host = <<newDomain>> \o Tail(url.host)]
  ELSE url

\* domainsToTest && domainsToTest.length > 0 ? domainsToTest : [domain]
domainsForScan(domainsToTest, domain) ==
  IF Len(domainsToTest) > 0 THEN domainsToTest ELSE <<domain>>

\* the page loop is reached with some sampled pages and some domain list
InitMultiDomain ==
  /\ ScanInit /\ ClusterIdle /\ SamplerIdle
  /\ CalcIdle /\ AnalyzerIdle /\ ConsumersAbsent
  /\ CategoriesIdle /\ DbIdle /\ StoreIdle /\ VisitsIdle
  /\ \E ds \in DomainLists, ps \in SampledPageLists :
       multiDomain = [domain |-> PrimaryHost, domains |-> ds,
                      sampledPages |-> ps, pageIndex |-> 1,
                      domainIndex |-> 0, scannedUrls |-> {},
                      records |-> <<>>]

\* one pass through the body of the domain loop: the URL is skipped when it
\* was scanned before, and scanned and recorded otherwise
DomainIteration ==
  /\ DOMAIN multiDomain # {}
  /\ multiDomain.pageIndex <= Len(multiDomain.sampledPages)
  /\ LET md == multiDomain
         forScan == domainsForScan(md.domains, md.domain)
         pageFp == md.sampledPages[md.pageIndex]
         currentDomain == forScan[md.domainIndex + 1]
         urlToTest == IF md.domainIndex = 0 THEN pageFp
                      ELSE replaceDomainInUrl(pageFp, md.domain, currentDomain)
         domainLabel == IF md.domainIndex = 0 THEN md.domain ELSE currentDomain
         last == md.domainIndex + 1 = Len(forScan)
         moved == [md EXCEPT
                     !.pageIndex = IF last THEN @ + 1 ELSE @,
                     !.domainIndex = IF last THEN 0 ELSE @ + 1]
     IN multiDomain' =
          IF urlToTest \in md.scannedUrls
          THEN moved
          ELSE [moved EXCEPT
                  !.scannedUrls = @ \cup {urlToTest},
                  !.records = Append(@, [url |-> urlToTest,
                                         domain |-> domainLabel,
                                         original_url |-> pageFp])]
  /\ UNCHANGED <<storedCategories, db, store, visits, calcVars, analyzerVars,
                 consumerVars, clusterVars, samplerVars, scanVars>>

NextMultiDomain == DomainIteration

SpecMultiDomain == InitMultiDomain /\ [][NextMultiDomain]_vars

\* the page loop has ended
LoopEnded ==
  /\ DOMAIN multiDomain # {}
  /\ multiDomain.pageIndex > Len(multiDomain.sampledPages)

\* the page records of sampled page pageFp whose URL is on the host of code
RecordsUnder(pageFp, code) ==
  {k \in 1..Len(multiDomain.records) :
     /\ multiDomain.records[k].original_url = pageFp
     /\ multiDomain.records[k].url.host[1] = code}

\* C36: in a multi-domain run every sampled page is scanned once under
\* every configured domain code, so a completed run holds one page record
\* per sampled page and configured domain, whatever the position of the
\* primary domain's code in the configured list.
C36_EveryPageUnderEveryDomain ==
  LoopEnded =>
    \A p \in 1..Len(multiDomain.sampledPages) :
      \A d \in 1..Len(multiDomain.domains) :
        Cardinality(RecordsUnder(multiDomain.sampledPages[p],
                                 multiDomain.domains[d])) = 1

\* ---------------------------------------------------------------------------
\* Test deletion: DELETE /api/tests/:id, DELETE /api/tests and the retention
\* cleanup, next to scans that are still writing page rows.
\* db.tests[t] is the status column of test t ("absent" when there is no row),
\* db.pages[t] the number of page rows with test_id = t, db.scans the tests
\* whose runScan has not returned, db.pending the rest of the list a bulk
\* deletion is iterating over (each deleteTest awaits the unlinks, so other
\* handlers run between two deletions).
MaxTests == 2

MaxPageRows == 1

TestIds == 1..MaxTests

NewestOf(S) == CHOOSE x \in S : \A y \in S : y <= x

RECURSIVE NewestFirst(_)
NewestFirst(S) ==
  IF S = {} THEN <<>> ELSE <<NewestOf(S)>> \o NewestFirst(S \ {NewestOf(S)})

getLatestTests ==
  LET ids == NewestFirst({t \in TestIds : db.tests[t] # "absent"})
  IN [i \in 1..Len(ids) |-> [id |-> ids[i], status |-> db.tests[ids[i]]]]

deleteTest(d, t) == [d EXCEPT !.tests[t] = "absent", !.pages[t] = 0]

DbFrame ==
  UNCHANGED <<storedCategories, multiDomain, store, visits, calcVars, analyzerVars,
              consumerVars, clusterVars, samplerVars, scanVars>>

InitDatabase ==
  /\ ScanInit /\ ClusterIdle /\ SamplerIdle /\ CalcIdle /\ AnalyzerIdle
  /\ ConsumersAbsent /\ CategoriesIdle /\ MultiDomainIdle /\ StoreIdle /\ VisitsIdle
  /\ db = [tests |-> [t \in TestIds |-> "absent"],
           pages |-> [t \in TestIds |-> 0],
           scans |-> {}, lastId |-> 0, pending |-> <<>>, rejected |-> FALSE]

\* runScan: createTest inserts the row with status 'running'.
CreateTest ==
  /\ db.lastId < MaxTests
  /\ LET t == db.lastId + 1
     IN db' = [db EXCEPT !.lastId = t, !.tests[t] = "running",
                         !.scans = @ \cup {t}]
  /\ DbFrame

\* createPage by a scan in progress. When the test row is gone, the insert
\* either fails on the foreign key (the page loop's catch logs it) or, with
\* foreign keys not enforced, leaves an orphan row.
CreatePage(t) ==
  /\ t \in db.scans
  /\ db.pages[t] < MaxPageRows
  /\ \/ /\ db.tests[t] # "absent"
        /\ db' = [db EXCEPT !.pages[t] = @ + 1]
     \/ /\ db.tests[t] = "absent"
        /\ \/ db' = [db EXCEPT !.pages[t] = @ + 1]
           \/ /\ ~db.rejected
              /\ db' = [db EXCEPT !.rejected = TRUE]
  /\ DbFrame

\* updateTest at the end of runScan: UPDATE ... WHERE id = ? changes the row
\* if there is one.
FinishScan(t, status) ==
  /\ t \in db.scans
  /\ db' = [db EXCEPT !.scans = @ \ {t},
                      !.tests[t] = IF @ = "absent" THEN @ ELSE status]
  /\ DbFrame

\* DELETE /api/tests/:id: 404 without a row, 400 for a running test.
DeleteTest(t) ==
  /\ db.tests[t] # "absent"
  /\ db.tests[t] # "running"
  /\ db' = deleteTest(db, t)
  /\ DbFrame

\* DELETE /api/tests: deleteAllTests lists the tests and deletes the first.
DeleteAllTests ==
  /\ db.pending = <<>>
  /\ getLatestTests # <<>>
  /\ db' = [deleteTest(db, getLatestTests[1].id)
              EXCEPT !.pending = [i \in 1..(Len(getLatestTests) - 1) |->
                         [id |-> getLatestTests[i + 1].id, status |-> "any"]]]
  /\ DbFrame

\* cleanupOldTests: the tests past the retention window or beyond maxTests
\* are the oldest n of the listing; each carries the status it was read with.
CleanupOldTests ==
  /\ db.pending = <<>>
  /\ \E n \in 1..Len(getLatestTests) :
       db' = [db EXCEPT !.pending =
                SubSeq(getLatestTests, Len(getLatestTests) - n + 1,
                       Len(getLatestTests))]
  /\ DbFrame

\* The next iteration of either loop.
DeleteNext ==
  /\ db.pending # <<>>
  /\ LET test == Head(db.pending)
     IN db' = [(IF test.status = "running" THEN db ELSE deleteTest(db, test.id))
                 EXCEPT !.pending = Tail(db.pending)]
  /\ DbFrame

NextDatabase ==
  \/ CreateTest
  \/ \E t \in TestIds : CreatePage(t)
  \/ \E t \in TestIds : \E status \in {"completed", "failed"} : FinishScan(t, status)
  \/ \E t \in TestIds : DeleteTest(t)
  \/ DeleteAllTests
  \/ CleanupOldTests
  \/ DeleteNext

SpecDatabase == InitDatabase /\ [][NextDatabase]_vars

\* C37: a step never removes the row of a running test nor any of its page
\* rows.
C37_RunningTestIsKept ==
  [][\A t \in TestIds :
       db.tests[t] = "running" =>
         /\ db'.tests[t] # "absent"
         /\ db'.pages[t] >= db.pages[t]]_vars

\* an error-severity issue of the given type tagged with viewport m
HasErrorIssue(res, t, m) ==
  \E k \in 1..Len(res.issues) :
    /\ res.issues[k].type = t
    /\ res.issues[k].severity = "error"
    /\ res.issues[k].viewport = m

\* C38: in the result scanPage returns, every viewport has a screenshot path
\* or an error-severity screenshot_failed or timeout issue tagged with it.
C38_EveryViewportAccounted ==
  pc = "returned"
    => \A m \in ModeNames :
         \/ m \in result.screenshots
         \/ HasErrorIssue(result, "screenshot_failed", m)
         \/ HasErrorIssue(result, "timeout", m)

\* scanPage returned after one pass threw before its screenshot, another
\* lost its screenshot to a capture failure, and a third stored its path
C38_Witness ==
  /\ pc = "returned"
  /\ \E m \in ModeNames :
       m \notin result.screenshots /\ HasErrorIssue(result, "timeout", m)
  /\ \E m \in ModeNames :
       /\ m \notin result.screenshots
       /\ HasErrorIssue(result, "screenshot_failed", m)
  /\ \E m \in ModeNames : m \in result.screenshots

\* ---------------------------------------------------------------------------
\* runScan steps 1-2 on their own: the homepage fingerprint, the concurrent
\* visit-and-analyze tasks of the sampled links, and the join that fills
\* `fingerprints` before cluster.cluster(fingerprints).
\* visits.n is sampledLinks.length, visits.results[l] what the l-th entry of
\* visitPromises settled with, visits.settled the links in the order their
\* entries settled, visits.fingerprints the array ("homepage" is the
\* homepage's fingerprint, l that of sampled link l).
MaxSampledLinks == 3

HomepageFp == "homepage"

VisitsFrame ==
  UNCHANGED <<storedCategories, multiDomain, db, store, calcVars, analyzerVars,
              consumerVars, clusterVars, samplerVars, scanVars>>

InitVisits ==
  /\ ScanInit /\ ClusterIdle /\ SamplerIdle /\ CalcIdle /\ AnalyzerIdle
  /\ ConsumersAbsent /\ CategoriesIdle /\ MultiDomainIdle /\ DbIdle /\ StoreIdle
  /\ \E n \in 0..MaxSampledLinks :
       visits = [n |-> n, results |-> [l \in 1..n |-> "pending"],
                 settled |-> <<>>, fingerprints |-> <<>>, pc |-> "homepage"]

\* domAnalyzer.analyze(homepage, ...) and fingerprints.push(homepageFp); the
\* map over sampledLinks then starts every task. A throw goes to the catch
\* of runScan.
AnalyzeHomepage ==
  /\ visits.pc = "homepage"
  /\ \/ visits' = [visits EXCEPT !.fingerprints = Append(@, HomepageFp),
                                 !.pc = "visiting"]
     \/ visits' = [visits EXCEPT !.pc = "failed"]
  /\ VisitsFrame

\* one task ends: it returns the fingerprint, or null from its catch
VisitSettles(l, outcome) ==
  /\ visits.pc = "visiting"
  /\ l \in 1..visits.n
  /\ visits.results[l] = "pending"
  /\ visits' = [visits EXCEPT !.results[l] = outcome,
                              !.settled = Append(@, l)]
  /\ VisitsFrame

RECURSIVE FingerprintsOf(_, _)
FingerprintsOf(order, v) ==
  IF order = <<>> THEN <<>>
  ELSE (IF v.results[Head(order)] = "fingerprint" THEN <<Head(order)>> ELSE <<>>)
         \o FingerprintsOf(Tail(order), v)

\* variant: the results come in the order the tasks settled
PromiseAllBySettleOrder(v) == FingerprintsOf(v.settled, v)

\* Promise.all(visitPromises): the array of results has the order of
\* visitPromises, which is that of sampledLinks; the loop keeps the non-null
PromiseAll(v) == FingerprintsOf([l \in 1..v.n |-> l], v)

\* await Promise.all(...) resumes and the results are pushed
CollectResults ==
  /\ visits.pc = "visiting"
  /\ \A l \in 1..visits.n : visits.results[l] # "pending"
  /\ visits' = [visits EXCEPT !.fingerprints = @ \o PromiseAll(visits),
                              !.pc = "clustering"]
  /\ VisitsFrame

NextVisits ==
  \/ AnalyzeHomepage
  \/ \E l \in 1..MaxSampledLinks :
       \E outcome \in {"fingerprint", "null"} : VisitSettles(l, outcome)
  \/ CollectResults

SpecVisits == InitVisits /\ [][NextVisits]_vars

\* C39: what cluster() is given is the homepage fingerprint followed by the
\* fingerprints of the links whose analysis succeeded, in ascending
\* sampled-link position, whatever order the analyses ended in.
C39_FingerprintsInLinkOrder ==
  visits.pc = "clustering"
    => LET fps == visits.fingerprints
       IN /\ Len(fps) >= 1 /\ fps[1] = HomepageFp
          /\ \A i \in 2..Len(fps), j \in 2..Len(fps) : i < j => fps[i] < fps[j]
          /\ {fps[i] : i \in 2..Len(fps)}
               = {l \in 1..visits.n : visits.results[l] = "fingerprint"}

\* the join ended after a later link's analysis succeeded before an earlier
\* link's did
C39_Witness ==
  /\ visits.pc = "clustering"
  /\ \E i \in 1..Len(visits.settled), j \in 1..Len(visits.settled) :
       /\ i < j /\ visits.settled[i] > visits.settled[j]
       /\ visits.results[visits.settled[i]] = "fingerprint"
       /\ visits.results[visits.settled[j]] = "fingerprint"

\* ---------------------------------------------------------------------------
\* ProgressManager's notification store. store.notifications is the array
\* this.notifications, each notification standing as the number in its id
\* ("notif-<n>"); a later notification has a later timestamp.
NotificationCap == 100

MaxNotifications == 102

StoreFrame ==
  UNCHANGED <<storedCategories, multiDomain, db, visits, calcVars, analyzerVars,
              consumerVars, clusterVars, samplerVars, scanVars>>

InitStore ==
  /\ ScanInit /\ ClusterIdle /\ SamplerIdle /\ CalcIdle /\ AnalyzerIdle
  /\ ConsumersAbsent /\ CategoriesIdle /\ MultiDomainIdle /\ DbIdle /\ VisitsIdle
  /\ store = [notifications |-> <<>>, notificationIdCounter |-> 0]

\* Array.prototype.slice(-n): the last n elements
SliceLast(s, n) == IF Len(s) <= n THEN s ELSE SubSeq(s, Len(s) - n + 1, Len(s))

\* completeScan of an active scan -> createNotification: push, then keep the
\* last 100 elements of the array
createNotification ==
  /\ store.notificationIdCounter < MaxNotifications
  /\ LET id == store.notificationIdCounter + 1
         pushed == Append(store.notifications, id)
     IN store' = [notifications |->
                    IF Len(pushed) > NotificationCap
                    THEN SliceLast(pushed, NotificationCap) ELSE pushed,
                  notificationIdCounter |-> id]
  /\ StoreFrame

\* sort((a, b) => b.timestamp - a.timestamp): the elements of s from the
\* latest created to the earliest
sortNewestFirst(s, counter) ==
  LET present == {s[i] : i \in 1..Len(s)}
  IN SelectSeq([i \in 1..counter |-> counter + 1 - i],
               LAMBDA id : id \in present)

\* getNotifications: this.notifications.sort(...) orders the stored array
\* itself, newest first; the slice it returns is a copy
getNotifications ==
  /\ store' = [store EXCEPT !.notifications =
                 sortNewestFirst(@, store.notificationIdCounter)]
  /\ store'.notifications # store.notifications
  /\ StoreFrame

NextStore == createNotification \/ getNotifications

SpecStore == InitStore /\ [][NextStore]_vars

\* C40: a notification leaves the store only when at least 100 notifications
\* newer than it have been created.
C40_DroppedOnlyWhenOld ==
  [][\A i \in 1..Len(store.notifications) :
       (\A j \in 1..Len(store'.notifications) :
          store'.notifications[j] # store.notifications[i])
         => store'.notificationIdCounter - store.notifications[i]
              >= NotificationCap]_vars

====
